---- MODULE Spec2Model ----
(***************************************************************************)
(* The retrieval-and-caching pipeline of the DICOMweb data source          *)
(* (extensions/default/src/DicomWebDataSource/index.js): the dispatch of   *)
(* retrieve.series.metadata, the eager strategy                            *)
(* (_retrieveSeriesMetadataSync), the lazy strategy                        *)
(* (_retrieveSeriesMetadataAsync with storeInstances and setSuccessFlag)   *)
(* and the deferred bulk-data accessor attached by addRetrieveBulkData.    *)
(*                                                                         *)
(* JavaScript runs one callback at a time: every action below is one       *)
(* callback (the synchronous run of a function up to its next await, or a  *)
(* promise reaction), together with the settlement that triggers it.       *)
(***************************************************************************)
EXTENDS Integers, Sequences, FiniteSets, TLC

\* ------------------------------------------------------------------ bounds
MaxSeries == 2      \* series the server holds for the study: 0..MaxSeries
MaxInst == 2        \* instances a series fetch delivers: 0..MaxInst
MaxInvocations == 3 \* invocations of one deferred bulk-data accessor
MaxImages == 2      \* instances of a display set: 0..MaxImages
MaxFrames == 4      \* NumberOfFrames of an instance: up to MaxFrames

StudyUID == "1.2.3"
NoUID == ""         \* a missing (falsy) StudyInstanceUID
SeriesIds == 1..MaxSeries
\* The invocations of retrieve.series.metadata: one alone, or two that may
\* overlap or follow each other.
CallIds == {1, 2}
SoloCall == {1}

VARIABLES
  dicomWebConfig,   \* _dicomWebConfig (module state): [enableStudyLazyLoad]
  srvSeries,        \* the server: number of series of the study
  srvInst,          \* the server: instances each series fetch delivers
  calls,            \* every invocation of retrieve.series.metadata
  cacheSeries,      \* DicomMetadataStore: series summaries of the study
  cacheInstances,   \* DicomMetadataStore: instance records of the study
  isLoaded,         \* DicomMetadataStore: study.isLoaded
  imageIdToUIDs,    \* metadataProvider: the imageId -> UIDs registry
  bdValue,          \* one naturalized attribute value (addRetrieveBulkData)
  bdInvocations,    \* the invocations of its retrieveBulkData accessor
  bdTransportCalls, \* _qidoDicomWebClient.retrieveBulkData calls issued
  displaySet,       \* the argument of a getImageIdsForDisplaySet call
  dsResult,         \* what that call gave
  authHeader,       \* userAuthenticationService.getAuthorizationHeader()
  qidoHeaders,      \* _qidoDicomWebClient.headers
  wadoHeaders,      \* _wadoDicomWebClient.headers
  transport,        \* the transport call issued last
  reload,           \* an external delete of the study from the cache
  syncData,         \* the naturalized instances the eager forEach runs over
  syncSummary,      \* seriesSummaryMetadata after that forEach
  cfgModule,        \* _dicomWebConfig, _qidoDicomWebClient, _wadoDicomWebClient
  cfgOwn,           \* webConfig of each createDicomWebApi call (its closure)
  cfgWritten,       \* the configuration given to initClients last
  cfgLazy,          \* whether a data source has a lazy retrieval in flight
  cfgUse,           \* the configuration the last step of a data source used
  studyIds,         \* a getImageIdsForStudy call and what it gave
  initCall,         \* an initialize call and what it gave
  grid,             \* viewportGridService state: viewports, active index
  toolGroups,       \* the ReferenceLines tool in every tool group
  panes             \* one rendering of the viewport grid: its checkReady

orchVars == <<dicomWebConfig, srvSeries, srvInst, calls, cacheSeries,
              cacheInstances, isLoaded, imageIdToUIDs>>
bulkVars == <<bdValue, bdInvocations, bdTransportCalls>>
dsVars == <<displaySet, dsResult>>
authVars == <<authHeader, qidoHeaders, wadoHeaders, transport>>
sumVars == <<syncData, syncSummary>>
cfgVars == <<cfgModule, cfgOwn, cfgWritten, cfgLazy, cfgUse>>
uiVars == <<studyIds, initCall, grid, toolGroups, panes>>
extVars == <<authVars, reload, sumVars, cfgVars, uiVars>>
vars == <<dicomWebConfig, srvSeries, srvInst, calls, cacheSeries,
          cacheInstances, isLoaded, imageIdToUIDs,
          bdValue, bdInvocations, bdTransportCalls,
          displaySet, dsResult,
          authHeader, qidoHeaders, wadoHeaders, transport, reload,
          syncData, syncSummary,
          cfgModule, cfgOwn, cfgWritten, cfgLazy, cfgUse,
          studyIds, initCall, grid, toolGroups, panes>>

\* ------------------------------------------------------- wire format, dcmjs
\* JavaScript's undefined, and truthiness of the values used here.
Undefined == "undefined"
Truthy(v) == v # Undefined

\* The attributes a wire instance carries besides its UIDs, keyed by tag:
\* whether the value has a BulkDataURI, and its inline Value if any.
WireTags == {"7FE00010", "60003000", "00080060", "00091001"}

WireValue(tag) ==
  CASE tag = "7FE00010" -> [BulkDataURI |-> TRUE,  Value |-> Undefined]
    [] tag = "60003000" -> [BulkDataURI |-> TRUE,  Value |-> "inline"]
    [] tag = "00080060" -> [BulkDataURI |-> FALSE, Value |-> "inline"]
    [] OTHER            -> [BulkDataURI |-> FALSE, Value |-> Undefined]

\* The naturalization table: coded tag -> attribute name; a tag the table does
\* not know keeps its raw key.
NaturalName(tag) ==
  CASE tag = "7FE00010" -> "PixelData"
    [] tag = "60003000" -> "OverlayData"
    [] tag = "00080060" -> "Modality"
    [] OTHER            -> tag

NaturalNames == {NaturalName(t) : t \in WireTags}

\* naturalizeDataset: the name-keyed record of a tag-keyed dictionary.
naturalizeDataset(wire) ==
  [name \in {NaturalName(t) : t \in DOMAIN wire} |->
     wire[CHOOSE t \in DOMAIN wire : NaturalName(t) = name]]

\* The wire dictionary of one instance.
WireInstance == [t \in WireTags |-> WireValue(t)]

\* The test of addRetrieveBulkData: value.BulkDataURI && !value.Value.
attachesAccessor(value) == value.BulkDataURI /\ ~Truthy(value.Value)

\* addRetrieveBulkData: the keys of the naturalized dataset whose value gets
\* a retrieveBulkData accessor.
addRetrieveBulkData(wire) ==
  LET naturalized == naturalizeDataset(wire)
  IN {key \in DOMAIN naturalized : attachesAccessor(naturalized[key])}

\* getImageId({instance, frame, config}): an opaque identifier; distinct
\* (instance, frame) pairs give distinct identifiers. frame is NoFrame when
\* the caller passes none, <<f>> for frame f.
NoFrame == <<>>
getImageId(instance, frame) == <<"imageId", instance, frame>>

\* As getImageIdsForInstance with the instance's first frame asked for.
getImageIdsForInstanceFirstFrame(s, i) == getImageId(<<s, i>>, <<1>>)

\* getImageIdsForInstance({instance}) as both strategies call it: the
\* identifier of the instance, computed without a frame.
getImageIdsForInstance(s, i) == getImageId(<<s, i>>, NoFrame)

\* NumberOfFrames of the instances the server holds: the first instance of a
\* series is single-frame, the others are multi-frame.
NumberOfFramesOf(s, i) == IF i = 1 THEN 1 ELSE MaxFrames

\* ------------------------------------------------------------ display sets
\* A display set as getImageIdsForDisplaySet reads it: whether it has images,
\* the NumberOfFrames of each instance in order (0: the attribute is absent),
\* and what getAttribute('multiFrameImagesMapper') gives: the object has no
\* getAttribute method, the attribute is absent, it is not a function, or it
\* is a function returning {startIndex, endIndex}.
NoMapper == [kind |-> "absent", startIndex |-> 0, endIndex |-> 0]
NoDisplaySet == [hasImages |-> FALSE, images |-> <<>>, mapper |-> NoMapper]
NotCalled == [called |-> FALSE, threw |-> FALSE, imageIds |-> <<>>]

\* An attribute value without BulkDataURI: no accessor is attached. study is
\* the StudyInstanceUID of the naturalized instance the value belongs to.
NoBulkValue ==
  [BulkDataURI |-> FALSE, Value |-> Undefined, accessor |-> FALSE,
   study |-> Undefined]

\* ---------------------------------------------------- authorization headers
\* No transport call was issued yet.
NoTransport ==
  [kind |-> "none", client |-> "none", headers |-> Undefined,
   provider |-> Undefined]

\* The clients as initClients builds them when the provider gives no header.
AuthIdle ==
  /\ authHeader = Undefined
  /\ qidoHeaders = Undefined
  /\ wadoHeaders = Undefined
  /\ transport = NoTransport

\* The study was not deleted from the cache.
NoReload == [deleted |-> FALSE, inFlight |-> FALSE, pending |-> {}]

\* The eager forEach did not run.
NoSummary == [called |-> FALSE, summaries |-> {}]
SummaryIdle == syncData = <<>> /\ syncSummary = NoSummary

\* The data sources: createDicomWebApi is called once for each.
DataSources == {"ds1", "ds2"}

\* The module before any createDicomWebApi call: _dicomWebConfig and the
\* clients are null.
NoConfig == [name |-> "null", enableStudyLazyLoad |-> FALSE]
NoUse == [kind |-> "none", by |-> "none", config |-> NoConfig,
          written |-> NoConfig]
ConfigIdle ==
  /\ cfgModule = [config |-> NoConfig, qido |-> NoConfig, wado |-> NoConfig]
  /\ cfgOwn = [i \in DataSources |-> NoConfig]
  /\ cfgWritten = NoConfig
  /\ cfgLazy = [i \in DataSources |-> FALSE]
  /\ cfgUse = NoUse

\* getImageIdsForStudy and initialize were not called.
NoStudyIds ==
  [called |-> FALSE, listing |-> TRUE, ok |-> <<>>, threw |-> FALSE,
   lists |-> <<>>]
NoInitCall ==
  [called |-> FALSE, studyInstanceUIDs |-> <<>>, seriesInstanceUIDs |-> <<>>]
NoInitArgs == [str |-> "", items |-> <<>>, kind |-> "undefined"]
NoInit ==
  [params |-> [StudyInstanceUIDs |-> NoInitArgs,
               SeriesInstanceUIDs |-> NoInitArgs],
   query |-> [StudyInstanceUIDs |-> <<>>, SeriesInstanceUIDs |-> <<>>],
   result |-> NoInitCall]

\* No viewport grid is mounted.
NoGrid == [viewports |-> 0, activeViewportIndex |-> 0, toolGroupOf |-> <<>>,
           last |-> "none", from |-> 0]
NoPanes == [numViewportPanes |-> 0, layoutLoaded |-> FALSE,
            readyViewports |-> 0, reports |-> <<>>, runs |-> 0,
            ranAt |-> <<>>]
UiIdle ==
  /\ studyIds = NoStudyIds
  /\ initCall = NoInit
  /\ grid = NoGrid
  /\ toolGroups = <<>>
  /\ panes = NoPanes

\* What the specifications of the other parts leave untouched.
ExtIdle ==
  AuthIdle /\ reload = NoReload /\ SummaryIdle /\ ConfigIdle /\ UiIdle

\* ------------------------------------------------------------------- state
\* A unit of work (promise.then(storeInstances)) is none, pending, fulfilled
\* or rejected.
IdleCall ==
  [pc |-> "idle", uid |-> NoUID, strategy |-> "none", result |-> "pending",
   error |-> "none", io |-> 0, fetchFailed |-> FALSE,
   units |-> [s \in SeriesIds |-> "none"],
   summaries |-> {}, batches |-> {}, adds |-> 0, log |-> <<>>,
   stamped |-> {}, early |-> {}]

Init ==
  /\ dicomWebConfig \in [enableStudyLazyLoad : BOOLEAN]
  /\ srvSeries \in 0..MaxSeries
  /\ srvInst \in [SeriesIds -> 0..MaxInst]
  /\ \A s \in SeriesIds : s > srvSeries => srvInst[s] = 0
  /\ calls = [c \in CallIds |-> IdleCall]
  /\ cacheSeries = {}
  /\ cacheInstances = {}
  /\ isLoaded = FALSE
  /\ imageIdToUIDs = {}
  /\ bdValue = NoBulkValue
  /\ bdInvocations = <<>>
  /\ bdTransportCalls = 0
  /\ displaySet = NoDisplaySet
  /\ dsResult = NotCalled
  /\ ExtIdle

StudySeries == 1..srvSeries

\* ------------------------------------------------- DicomMetadataStore (cache)
\* addInstances(list): identifier-keyed upsert of instance records.
addInstances(store, batch) ==
  LET new == {batch[j] : j \in DOMAIN batch}
      Same(a, b) == /\ a.SeriesInstanceUID = b.SeriesInstanceUID
                    /\ a.SOPInstanceUID = b.SOPInstanceUID
  IN {r \in store : ~\E n \in new : Same(r, n)} \cup new

\* addSeriesMetadata(list): identifier-keyed upsert of series summaries.
addSeriesMetadata(store, summaries) == store \cup summaries

\* ------------------------------------------------------------ transport
\* retrieveStudyMetadata, lazy: the series listing (preLoadData) of the study.
preLoadData == StudySeries

\* The StudyInstanceUID a listed series summary carries on the wire: some
\* servers leave it out.
listedStudyOf(s) == IF s = 1 THEN Undefined ELSE StudyUID

\* The series summaries of the listing as the server delivers them.
listedSummaries ==
  {[SeriesInstanceUID |-> s, StudyInstanceUID |-> listedStudyOf(s)] :
     s \in preLoadData}

\* seriesSummaryMetadata.forEach(aSeries => aSeries.StudyInstanceUID =
\* StudyInstanceUID): every listed summary gets the requested identifier.
stampSummaries(list, uid) ==
  {[r EXCEPT !.StudyInstanceUID = uid] : r \in list}

\* retrieveStudyMetadata, eager: the instances of every series, in series
\* order; the whole retrieval fails when the fetch of any one series fails.
RECURSIVE StudyData(_)
StudyData(n) ==
  IF n = 0 THEN <<>>
  ELSE StudyData(n - 1) \o [i \in 1..srvInst[n] |-> <<n, i>>]

syncFetchFails(ok) == \E s \in StudySeries : ~ok[s]

\* -------------------------------------------------------- lazy: storeInstances
Faults == {"none", "naturalize", "imageId", "commit"}

\* The imageId of a naturalized instance nothing was assigned to yet.
Unassigned == <<"undefined">>

\* As lazyRecord with the instance handed on before instance.imageId is set.
lazyRecordUnassigned(s, i) ==
  [SeriesInstanceUID |-> s, SOPInstanceUID |-> i,
   NumberOfFrames |-> NumberOfFramesOf(s, i),
   imageId |-> Unassigned,
   retrieveBulkData |-> addRetrieveBulkData(WireInstance)]

\* The record storeInstances builds for instance i of series s: naturalized by
\* addRetrieveBulkData, imageId assigned.
lazyRecord(s, i) ==
  [SeriesInstanceUID |-> s, SOPInstanceUID |-> i,
   NumberOfFrames |-> NumberOfFramesOf(s, i),
   imageId |-> getImageIdsForInstance(s, i),
   retrieveBulkData |-> addRetrieveBulkData(WireInstance)]

\* As storeInstances with addInstances called inside the forEach, instance by
\* instance: what was processed before an exception is committed.
storeInstancesPerInstance(s, n, fault, k) ==
  LET done == CASE fault = "naturalize" -> 0
                [] fault = "imageId" -> k - 1
                [] OTHER -> n
  IN [threw |-> fault # "none",
      registered |-> {getImageIdsForInstance(s, i) : i \in 1..done},
      committed |-> done > 0,
      batch |-> [i \in 1..done |-> lazyRecord(s, i)]]

\* As storeInstances with the last instance left out of the committed list.
storeInstancesDropLast(s, n, fault, k) ==
  [threw |-> fault # "none",
   registered |->
     CASE fault = "naturalize" -> {}
       [] fault = "imageId" -> {getImageIdsForInstance(s, i) : i \in 1..(k - 1)}
       [] OTHER -> {getImageIdsForInstance(s, i) : i \in 1..n},
   committed |-> fault = "none",
   batch |-> IF fault = "none" /\ n > 0
             THEN [i \in 1..(n - 1) |-> lazyRecord(s, i)] ELSE <<>>]

\* As storeInstances with the commit left to the continuation of the
\* completion barrier: the unit of work itself passes nothing to addInstances.
storeInstancesDeferred(s, n, fault, k) ==
  [threw |-> fault # "none",
   registered |->
     CASE fault = "naturalize" -> {}
       [] fault = "imageId" -> {getImageIdsForInstance(s, i) : i \in 1..(k - 1)}
       [] OTHER -> {getImageIdsForInstance(s, i) : i \in 1..n},
   committed |-> FALSE,
   batch |-> <<>>]

\* storeInstances(instances) for the n instances of series s. fault names where
\* an exception is raised (none; in instances.map(addRetrieveBulkData); in the
\* forEach at instance k; in addInstances, which commits nothing when it
\* throws). registered: the imageIds passed to addImageIdToUIDs before that;
\* batch: the list passed to a completed addInstances.
storeInstances(s, n, fault, k) ==
  [threw |-> fault # "none",
   registered |->
     CASE fault = "naturalize" -> {}
       [] fault = "imageId" -> {getImageIdsForInstance(s, i) : i \in 1..(k - 1)}
       [] OTHER -> {getImageIdsForInstance(s, i) : i \in 1..n},
   committed |-> fault = "none",
   batch |-> IF fault = "none" THEN [i \in 1..n |-> lazyRecord(s, i)] ELSE <<>>]

\* As storeInstancesCommit with the store replaced by the list.
storeInstancesCommitReplacing(store, run) ==
  IF run.committed THEN {run.batch[j] : j \in DOMAIN run.batch} ELSE store

\* The last statement of storeInstances: DicomMetadataStore.addInstances of the
\* list, reached only when nothing threw before.
storeInstancesCommit(store, run) ==
  IF run.committed THEN addInstances(store, run.batch) ELSE store

\* As Promise.race: settled as soon as one unit is.
allSettledAsRace(units) ==
  IF \E s \in StudySeries : units[s] \in {"fulfilled", "rejected"}
  THEN "fulfilled" ELSE "pending"

\* As Promise.all: rejected as soon as one unit is.
allSettledAsAll(units) ==
  IF \E s \in StudySeries : units[s] = "rejected" THEN "rejected"
  ELSE IF \A s \in StudySeries : units[s] = "fulfilled" THEN "fulfilled"
  ELSE "pending"

\* Promise.allSettled over the units of work of a call: never rejects, and is
\* fulfilled once every unit is fulfilled or rejected.
allSettled(units) ==
  IF \A s \in StudySeries : units[s] \in {"fulfilled", "rejected"}
  THEN "fulfilled" ELSE "pending"

\* ------------------------------------------- eager: _retrieveSeriesMetadataSync
SyncFaults == {"none", "naturalize", "imageId"}

\* As syncRecord with the instance stored under an identifier of its position
\* in the response, which no other retrieval of the instance gives it.
syncRecordKeyedByPosition(s, i) ==
  [SeriesInstanceUID |-> s, SOPInstanceUID |-> MaxInst + i,
   NumberOfFrames |-> NumberOfFramesOf(s, i),
   imageId |-> getImageIdsForInstance(s, i),
   retrieveBulkData |-> {}]

\* data.map(naturalizeDataset): no accessor is attached on this path.
syncRecord(s, i) ==
  [SeriesInstanceUID |-> s, SOPInstanceUID |-> i,
   NumberOfFrames |-> NumberOfFramesOf(s, i),
   imageId |-> getImageIdsForInstance(s, i),
   retrieveBulkData |-> {}]

\* As seriesSummaryMetadata filled from the first instance of data only.
syncSummariesFirstOnly(data) == {data[j][1] : j \in DOMAIN data \cap {1}}

\* seriesSummaryMetadata: one summary per SeriesInstanceUID seen in data.
syncSummaries(data) == {data[j][1] : j \in DOMAIN data}

\* instancesPerSeries: the instances of data grouped by SeriesInstanceUID, one
\* list per key, in the order the keys were first seen.
RECURSIVE syncBatches(_, _)
syncBatches(data, n) ==
  IF n = 0 THEN <<>>
  ELSE LET rest == syncBatches(data, n - 1)
           sel == SelectSeq(data, LAMBDA e : e[1] = n)
           mine == [j \in 1..Len(sel) |-> syncRecord(sel[j][1], sel[j][2])]
       IN IF n \in syncSummaries(data) THEN Append(rest, mine) ELSE rest

\* As syncCommitOrder with the instances committed before the summaries.
syncCommitOrderInstancesFirst(batches) ==
  [j \in 1..Len(batches) |-> "addInstances"] \o <<"addSeriesMetadata">>

\* The store operations of _retrieveSeriesMetadataSync in the order it calls
\* them: addSeriesMetadata once, then addInstances once per series.
syncCommitOrder(batches) ==
  <<"addSeriesMetadata">> \o [j \in 1..Len(batches) |-> "addInstances"]

\* The run of _retrieveSeriesMetadataSync after data arrived.
syncRun(data, fault, k) ==
  [threw |-> fault # "none",
   registered |->
     CASE fault = "naturalize" -> {}
       [] fault = "imageId" ->
            {getImageIdsForInstance(data[j][1], data[j][2]) : j \in 1..(k - 1)}
       [] OTHER ->
            {getImageIdsForInstance(data[j][1], data[j][2]) : j \in DOMAIN data},
   summaries |-> IF fault = "none" THEN syncSummaries(data) ELSE {},
   batches |-> IF fault = "none" THEN syncBatches(data, srvSeries) ELSE <<>>,
   order |-> IF fault = "none"
             THEN syncCommitOrder(syncBatches(data, srvSeries)) ELSE <<>>]

RECURSIVE CommitAll(_, _)
CommitAll(store, batches) ==
  IF batches = <<>> THEN store
  ELSE CommitAll(addInstances(store, Head(batches)), Tail(batches))

\* ------------------------------------------------------------------ actions
\* updateConfig -> initClients: the module-wide configuration is replaced.
updateConfig(lazy) ==
  /\ dicomWebConfig.enableStudyLazyLoad # lazy
  /\ dicomWebConfig' = [enableStudyLazyLoad |-> lazy]
  /\ UNCHANGED <<srvSeries, srvInst, calls, cacheSeries, cacheInstances,
                 isLoaded, imageIdToUIDs>>
  /\ UNCHANGED <<bulkVars, dsVars, extVars>>

\* As dispatch without the StudyInstanceUID check.
dispatchUnchecked(call, uid, lazy) ==
  IF lazy
  THEN [call EXCEPT !.pc = "listing", !.uid = uid, !.strategy = "lazy", !.io = 1]
  ELSE [call EXCEPT !.pc = "fetching", !.uid = uid, !.strategy = "eager", !.io = 1]

\* As dispatch with the test of enableStudyLazyLoad reversed.
dispatchInverted(call, uid, lazy) ==
  IF uid = NoUID
  THEN [call EXCEPT !.pc = "done", !.result = "rejected", !.error = "config"]
  ELSE IF ~lazy
       THEN [call EXCEPT !.pc = "listing", !.uid = uid, !.strategy = "lazy",
                         !.io = 1]
       ELSE [call EXCEPT !.pc = "fetching", !.uid = uid, !.strategy = "eager",
                         !.io = 1]

\* retrieve.series.metadata up to its first await: the StudyInstanceUID check,
\* then the strategy chosen by enableStudyLazyLoad, which issues the
\* retrieveStudyMetadata request.
dispatch(call, uid, lazy) ==
  IF uid = NoUID
  THEN [call EXCEPT !.pc = "done", !.result = "rejected", !.error = "config"]
  ELSE IF lazy
       THEN [call EXCEPT !.pc = "listing", !.uid = uid, !.strategy = "lazy",
                         !.io = 1]
       ELSE [call EXCEPT !.pc = "fetching", !.uid = uid, !.strategy = "eager",
                         !.io = 1]

metadata(c, uid) ==
  /\ calls[c].pc = "idle"
  /\ \A d \in CallIds : d < c => calls[d].pc # "idle"
  /\ calls' = [calls EXCEPT
                 ![c] = dispatch(@, uid, dicomWebConfig.enableStudyLazyLoad)]
  /\ UNCHANGED <<dicomWebConfig, srvSeries, srvInst, cacheSeries,
                 cacheInstances, isLoaded, imageIdToUIDs>>
  /\ UNCHANGED <<bulkVars, dsVars, extVars>>

\* As listingThrows with the rejection of the listing swallowed.
listingThrowsSwallowed(call) ==
  [call EXCEPT !.pc = "done", !.result = "fulfilled", !.fetchFailed = TRUE]

\* await retrieveStudyMetadata(...) of a rejected listing throws out of the
\* async function: its promise rejects with the transport's reason.
listingThrows(call) ==
  [call EXCEPT !.pc = "done", !.result = "rejected", !.error = "transport",
               !.fetchFailed = TRUE]

\* _retrieveSeriesMetadataAsync, the listing failed: the await throws.
listingRejected(c) ==
  /\ calls[c].pc = "listing"
  /\ calls' = [calls EXCEPT ![c] = listingThrows(@)]
  /\ UNCHANGED <<dicomWebConfig, srvSeries, srvInst, cacheSeries,
                 cacheInstances, isLoaded, imageIdToUIDs>>
  /\ UNCHANGED <<bulkVars, dsVars, extVars>>

\* _retrieveSeriesMetadataAsync from the listing's arrival to the await of
\* Promise.allSettled: the per-series fetches are in flight, the summaries are
\* stamped and committed, one unit of work per series is pending.
listingDelivered(c) ==
  /\ calls[c].pc = "listing"
  /\ cacheSeries' = addSeriesMetadata(cacheSeries, preLoadData)
  /\ calls' = [calls EXCEPT ![c] = [@ EXCEPT !.pc = "units",
                  !.io = @ + srvSeries,
                  !.summaries = preLoadData,
                  !.stamped = stampSummaries(listedSummaries, calls[c].uid),
                  !.log = <<"addSeriesMetadata">>,
                  !.units = [s \in SeriesIds |->
                               IF s \in StudySeries THEN "pending" ELSE "none"]]]
  /\ UNCHANGED <<dicomWebConfig, srvSeries, srvInst, cacheInstances, isLoaded,
                 imageIdToUIDs>>
  /\ UNCHANGED <<bulkVars, dsVars, extVars>>

\* A series fetch was rejected: promise.then(...) rejects with it, and
\* storeInstances does not run.
unitRejected(c, s) ==
  /\ calls[c].units[s] = "pending"
  /\ calls' = [calls EXCEPT ![c].units[s] = "rejected"]
  /\ UNCHANGED <<dicomWebConfig, srvSeries, srvInst, cacheSeries,
                 cacheInstances, isLoaded, imageIdToUIDs>>
  /\ UNCHANGED <<bulkVars, dsVars, extVars>>

\* As unitReacts with a reaction that is dropped once the study was deleted.
unitReactsUnlessDeleted(c, s) ==
  calls[c].units[s] = "pending" /\ ~reload.deleted

\* As unitReacts with a reaction that also runs as soon as its series fetch
\* has settled, whether or not the listing was committed.
unitReactsOnSettle(c, s) ==
  \/ calls[c].units[s] = "pending"
  \/ calls[c].pc = "listing" /\ s \in calls[c].early

\* The reaction promise.then(instances => storeInstances(instances)) runs
\* whenever the series fetch it was attached to fulfils.
unitReacts(c, s) == calls[c].units[s] = "pending"

\* A series fetch delivered its instances: the reaction runs storeInstances;
\* the unit of work is fulfilled unless storeInstances threw.
unitDelivered(c, s, fault, k) ==
  /\ unitReacts(c, s)
  /\ IF fault = "imageId" THEN k \in 1..srvInst[s] ELSE k = 0
  /\ LET run == storeInstances(s, srvInst[s], fault, k)
     IN /\ imageIdToUIDs' = imageIdToUIDs \cup run.registered
        /\ cacheInstances' = storeInstancesCommit(cacheInstances, run)
        /\ calls' = [calls EXCEPT ![c] = [@ EXCEPT
                       !.units[s] = IF run.threw THEN "rejected" ELSE "fulfilled",
                       !.batches = IF run.committed THEN @ \cup {run.batch}
                                   ELSE @,
                       !.adds = IF run.committed THEN @ + 1 ELSE @,
                       !.log = IF run.committed THEN Append(@, "addInstances")
                               ELSE @]]
  /\ UNCHANGED <<dicomWebConfig, srvSeries, srvInst, cacheSeries, isLoaded>>
  /\ UNCHANGED <<bulkVars, dsVars, extVars>>

\* As studyIsLoaded with the flag flipped instead of set.
studyIsLoadedToggled(flag) == ~flag

\* study.isLoaded = true, whatever the flag was.
studyIsLoaded(flag) == TRUE

\* The continuation of await Promise.allSettled(...): setSuccessFlag, and the
\* call returns.
setSuccessFlag(c) ==
  /\ calls[c].pc = "units"
  /\ allSettled(calls[c].units) # "pending"
  /\ IF allSettled(calls[c].units) = "fulfilled"
     THEN /\ isLoaded' = studyIsLoaded(isLoaded)
          /\ calls' = [calls EXCEPT ![c] = [@ EXCEPT !.pc = "done",
                          !.result = "fulfilled"]]
     ELSE /\ isLoaded' = isLoaded
          /\ calls' = [calls EXCEPT ![c] = [@ EXCEPT !.pc = "done",
                          !.result = "rejected", !.error = "unit"]]
  /\ UNCHANGED <<dicomWebConfig, srvSeries, srvInst, cacheSeries,
                 cacheInstances, imageIdToUIDs>>
  /\ UNCHANGED <<bulkVars, dsVars, extVars>>

\* As an await whose rejection is swallowed: what was delivered is used.
syncAwaitSwallow(failed, data) == [threw |-> FALSE, data |-> data]

\* await retrieveStudyMetadata(...) in _retrieveSeriesMetadataSync: a rejection
\* is thrown on, a fulfilment gives data.
syncAwait(failed, data) ==
  IF failed THEN [threw |-> TRUE, data |-> <<>>]
  ELSE [threw |-> FALSE, data |-> data]

\* The data the successful series fetches delivered.
RECURSIVE PartialData(_, _)
PartialData(ok, n) ==
  IF n = 0 THEN <<>>
  ELSE PartialData(ok, n - 1) \o
       (IF ok[n] THEN [i \in 1..srvInst[n] |-> <<n, i>>] ELSE <<>>)

\* _retrieveSeriesMetadataSync from the settlement of retrieveStudyMetadata to
\* its return: ok says which series fetches succeeded.
\* As syncLoaded with the eager strategy marking the study loaded.
syncLoadedSet(flag) == TRUE

\* study.isLoaded across _retrieveSeriesMetadataSync, which never reads the
\* study record nor writes the flag.
syncLoaded(flag) == flag

syncSettled(c, ok, fault, k) ==
  /\ calls[c].pc = "fetching"
  /\ \A s \in SeriesIds : s > srvSeries => ok[s]
  /\ LET got == syncAwait(syncFetchFails(ok), PartialData(ok, srvSeries))
         run == syncRun(got.data, fault, k)
     IN /\ IF fault = "imageId" THEN k \in 1..Len(got.data) ELSE k = 0
        /\ got.threw => fault = "none"
        /\ imageIdToUIDs' = IF got.threw THEN imageIdToUIDs
                            ELSE imageIdToUIDs \cup run.registered
        /\ cacheSeries' = IF got.threw \/ run.threw THEN cacheSeries
                          ELSE addSeriesMetadata(cacheSeries, run.summaries)
        /\ cacheInstances' = IF got.threw \/ run.threw THEN cacheInstances
                             ELSE CommitAll(cacheInstances, run.batches)
        /\ calls' = [calls EXCEPT ![c] =
             IF got.threw
             THEN [@ EXCEPT !.pc = "done", !.result = "rejected",
                            !.error = "transport",
                            !.fetchFailed = syncFetchFails(ok)]
             ELSE IF run.threw
             THEN [@ EXCEPT !.pc = "done", !.result = "rejected",
                            !.error = "processing",
                            !.fetchFailed = syncFetchFails(ok)]
             ELSE [@ EXCEPT !.pc = "done", !.result = "fulfilled",
                            !.fetchFailed = syncFetchFails(ok),
                            !.summaries = run.summaries,
                            !.batches = {run.batches[j] : j \in DOMAIN run.batches},
                            !.adds = Len(run.batches),
                            !.log = run.order]]
  /\ isLoaded' = syncLoaded(isLoaded)
  /\ UNCHANGED <<dicomWebConfig, srvSeries, srvInst>>
  /\ UNCHANGED <<bulkVars, dsVars, extVars>>

\* ------------------------------------------- the retrieveBulkData accessor
\* What _qidoDicomWebClient.retrieveBulkData can answer: an empty envelope, or
\* an envelope whose first element is empty or is the value.
Responses == {<<>>, <<Undefined>>, <<"v1">>, <<"v2">>}

\* (val && val[0]) || undefined
firstElement(val) ==
  IF val = <<>> THEN Undefined
  ELSE IF Truthy(val[1]) THEN val[1] ELSE Undefined

\* As optionsStudyInstanceUID with the option left out.
optionsStudyInstanceUIDOmitted(naturalizedStudy) == Undefined

\* options.StudyInstanceUID: naturalized.StudyInstanceUID, the attribute of
\* the instance the accessor was attached to.
optionsStudyInstanceUID(naturalizedStudy) == naturalizedStudy

\* As reactionValue with value.Value left as it was.
reactionValueKept(old, ret) == old

\* value.Value = ret: the attribute's Value after the reaction.
reactionValue(old, ret) == ret

\* value.retrieveBulkData(): every invocation issues a transport call.
retrieveBulkData ==
  /\ bdValue.accessor
  /\ Len(bdInvocations) < MaxInvocations
  /\ bdTransportCalls' = bdTransportCalls + 1
  /\ bdInvocations' = Append(bdInvocations,
       [state |-> "pending", ret |-> Undefined, issued |-> TRUE,
        scope |-> optionsStudyInstanceUID(bdValue.study), arrival |-> 0,
        sequential |-> \A j \in DOMAIN bdInvocations :
                          bdInvocations[j].state = "fulfilled"])
  /\ UNCHANGED bdValue
  /\ UNCHANGED <<orchVars, dsVars, extVars>>

\* The reaction to the transport's answer: value.Value = ret; return ret.
bulkDataDelivered(j, val) ==
  /\ j \in DOMAIN bdInvocations
  /\ bdInvocations[j].state = "pending"
  /\ bdValue' = [bdValue EXCEPT !.Value = reactionValue(@, firstElement(val))]
  /\ bdInvocations' =
       [bdInvocations EXCEPT
          ![j].state = "fulfilled",
          ![j].ret = firstElement(val),
          ![j].arrival = 1 + Cardinality({i \in DOMAIN bdInvocations :
                                            bdInvocations[i].arrival > 0})]
  /\ UNCHANGED bdTransportCalls
  /\ UNCHANGED <<orchVars, dsVars, extVars>>

\* The transport call failed: the accessor's promise rejects, Value is kept.
bulkDataRejected(j) ==
  /\ j \in DOMAIN bdInvocations
  /\ bdInvocations[j].state = "pending"
  /\ bdInvocations' = [bdInvocations EXCEPT ![j].state = "rejected"]
  /\ UNCHANGED <<bdValue, bdTransportCalls>>
  /\ UNCHANGED <<orchVars, dsVars, extVars>>

\* The StudyInstanceUID attribute of an instance as the server sent it: that
\* of the requested study, or none.
InstanceStudies == {StudyUID, Undefined}

\* One attribute value of an instance stored by the lazy strategy, as
\* addRetrieveBulkData left it.
InitBulk ==
  /\ dicomWebConfig = [enableStudyLazyLoad |-> TRUE]
  /\ srvSeries = 0
  /\ srvInst = [s \in SeriesIds |-> 0]
  /\ calls = [c \in CallIds |-> IdleCall]
  /\ cacheSeries = {}
  /\ cacheInstances = {}
  /\ isLoaded = FALSE
  /\ imageIdToUIDs = {}
  /\ \E key \in NaturalNames :
       LET value == naturalizeDataset(WireInstance)[key]
       IN \E study \in InstanceStudies :
            bdValue = [BulkDataURI |-> value.BulkDataURI, Value |-> value.Value,
                       accessor |-> attachesAccessor(value), study |-> study]
  /\ bdInvocations = <<>>
  /\ bdTransportCalls = 0
  /\ displaySet = NoDisplaySet
  /\ dsResult = NotCalled
  /\ ExtIdle

NextBulk ==
  \/ retrieveBulkData
  \/ \E j \in 1..MaxInvocations, val \in Responses : bulkDataDelivered(j, val)
  \/ \E j \in 1..MaxInvocations : bulkDataRejected(j)

SpecBulk == InitBulk /\ [][NextBulk]_vars

\* ------------------------------------------- getImageIdsForDisplaySet
FrameCounts == 0..MaxFrames
MapperIndexes == 0..(MaxFrames + 1)

Mappers ==
  {[kind |-> k, startIndex |-> 0, endIndex |-> 0] :
     k \in {"noGetAttribute", "absent", "notFunction"}}
  \cup [kind : {"function"}, startIndex : MapperIndexes, endIndex : MapperIndexes]

ImageLists == UNION {[1..n -> FrameCounts] : n \in 0..MaxImages}

DisplaySets ==
  {[hasImages |-> FALSE, images |-> <<>>, mapper |-> m] : m \in Mappers}
  \cup [hasImages : {TRUE}, images : ImageLists, mapper : Mappers]

\* As frameRange with the mapper never consulted.
frameRangeDefault(NumberOfFrames, mapper) ==
  [startIndex |-> 1, endIndex |-> NumberOfFrames]

\* startIndex and endIndex: 1 and NumberOfFrames, replaced by the mapper's
\* answer when the attribute is a function.
frameRange(NumberOfFrames, mapper) ==
  IF mapper.kind = "function"
  THEN [startIndex |-> mapper.startIndex, endIndex |-> mapper.endIndex]
  ELSE [startIndex |-> 1, endIndex |-> NumberOfFrames]

\* As isMultiFrame with the test NumberOfFrames >= 1.
isMultiFrameFromOne(NumberOfFrames) == NumberOfFrames >= 1

\* NumberOfFrames > 1 (false when the attribute is absent).
isMultiFrame(NumberOfFrames) == NumberOfFrames > 1

\* As framesFrom with the loop test frame < endIndex.
RECURSIVE framesFromExclusive(_, _)
framesFromExclusive(frame, endIndex) ==
  IF frame < endIndex
  THEN <<frame>> \o framesFromExclusive(frame + 1, endIndex)
  ELSE <<>>

\* for (let frame = startIndex; frame <= endIndex; frame++): the frames the
\* loop visits, in order.
RECURSIVE framesFrom(_, _)
framesFrom(frame, endIndex) ==
  IF frame <= endIndex
  THEN <<frame>> \o framesFrom(frame + 1, endIndex)
  ELSE <<>>

\* One iteration of displaySet.images.forEach: the identifiers pushed for
\* one instance.
instanceImageIds(instance, NumberOfFrames, mapper) ==
  LET range == frameRange(NumberOfFrames, mapper)
      frames == framesFrom(range.startIndex, range.endIndex)
  IN IF isMultiFrame(NumberOfFrames)
     THEN [x \in 1..Len(frames) |-> getImageId(instance, <<frames[x]>>)]
     ELSE <<getImageId(instance, NoFrame)>>

\* imageIds after the first n iterations of the forEach.
RECURSIVE forEachImage(_, _, _)
forEachImage(images, n, mapper) ==
  IF n = 0 THEN <<>>
  ELSE forEachImage(images, n - 1, mapper)
       \o instanceImageIds(n, images[n], mapper)

\* getImageIdsForDisplaySet(displaySet): [] without images; a TypeError at the
\* first iteration when the object has no getAttribute method.
getImageIdsForDisplaySet(ds) ==
  IF ~ds.hasImages
  THEN [called |-> TRUE, threw |-> FALSE, imageIds |-> <<>>]
  ELSE IF ds.mapper.kind = "noGetAttribute" /\ ds.images # <<>>
  THEN [called |-> TRUE, threw |-> TRUE, imageIds |-> <<>>]
  ELSE [called |-> TRUE, threw |-> FALSE,
        imageIds |-> forEachImage(ds.images, Len(ds.images), ds.mapper)]

callGetImageIdsForDisplaySet ==
  /\ ~dsResult.called
  /\ dsResult' = getImageIdsForDisplaySet(displaySet)
  /\ UNCHANGED displaySet
  /\ UNCHANGED <<orchVars, bulkVars, extVars>>

\* One call of getImageIdsForDisplaySet on any display set within the bounds.
InitImageIds ==
  /\ dicomWebConfig = [enableStudyLazyLoad |-> TRUE]
  /\ srvSeries = 0
  /\ srvInst = [s \in SeriesIds |-> 0]
  /\ calls = [c \in CallIds |-> IdleCall]
  /\ cacheSeries = {}
  /\ cacheInstances = {}
  /\ isLoaded = FALSE
  /\ imageIdToUIDs = {}
  /\ bdValue = NoBulkValue
  /\ bdInvocations = <<>>
  /\ bdTransportCalls = 0
  /\ displaySet \in DisplaySets
  /\ dsResult = NotCalled
  /\ ExtIdle

NextImageIds == callGetImageIdsForDisplaySet

SpecImageIds == InitImageIds /\ [][NextImageIds]_vars

\* --------------------------------------------- the authorization provider
\* What getAuthorizationHeader() can give: no header, or a header value.
Headers == {Undefined, "Bearer 1", "Bearer 2"}

\* const headers = getAuthorizationHeader(); if (headers) client.headers =
\* headers: the headers the client holds afterwards.
refreshHeaders(clientHeaders, headers) ==
  IF Truthy(headers) THEN headers ELSE clientHeaders

\* The authorization provider's value changes (log in, token renewal, log
\* out).
setAuthorizationHeader(h) ==
  /\ h # authHeader
  /\ authHeader' = h
  /\ UNCHANGED <<qidoHeaders, wadoHeaders, transport>>
  /\ UNCHANGED <<orchVars, bulkVars, dsVars, reload, sumVars, cfgVars,
                 uiVars>>

\* A call through _qidoDicomWebClient that refreshes the headers first:
\* query.studies.search, query.series.search, query.instances.search.
qidoCall(kind) ==
  /\ qidoHeaders' = refreshHeaders(qidoHeaders, authHeader)
  /\ transport' = [kind |-> kind, client |-> "qido",
                   headers |-> refreshHeaders(qidoHeaders, authHeader),
                   provider |-> authHeader]
  /\ UNCHANGED <<authHeader, wadoHeaders>>
  /\ UNCHANGED <<orchVars, bulkVars, dsVars, reload, sumVars, cfgVars,
                 uiVars>>

\* A call through _wadoDicomWebClient that refreshes the headers first:
\* retrieve.series.metadata (either strategy's retrieveStudyMetadata) and
\* store.dicom.
wadoCall(kind) ==
  /\ wadoHeaders' = refreshHeaders(wadoHeaders, authHeader)
  /\ transport' = [kind |-> kind, client |-> "wado",
                   headers |-> refreshHeaders(wadoHeaders, authHeader),
                   provider |-> authHeader]
  /\ UNCHANGED <<authHeader, qidoHeaders>>
  /\ UNCHANGED <<orchVars, bulkVars, dsVars, reload, sumVars, cfgVars,
                 uiVars>>

\* value.retrieveBulkData(): _qidoDicomWebClient.retrieveBulkData with the
\* headers the client holds; the provider is not asked.
bulkDataCall ==
  /\ transport' = [kind |-> "retrieveBulkData", client |-> "qido",
                   headers |-> qidoHeaders, provider |-> authHeader]
  /\ UNCHANGED <<authHeader, qidoHeaders, wadoHeaders>>
  /\ UNCHANGED <<orchVars, bulkVars, dsVars, reload, sumVars, cfgVars,
                 uiVars>>

\* initClients (createDicomWebApi, updateConfig): both clients are rebuilt
\* with the provider's value of that moment.
initClientsHeaders ==
  /\ qidoHeaders' = authHeader
  /\ wadoHeaders' = authHeader
  /\ UNCHANGED <<authHeader, transport>>
  /\ UNCHANGED <<orchVars, bulkVars, dsVars, reload, sumVars, cfgVars,
                 uiVars>>

QidoKinds == {"query.studies.search", "query.series.search",
              "query.instances.search"}
WadoKinds == {"retrieve.series.metadata", "store.dicom"}

InitAuth ==
  /\ dicomWebConfig = [enableStudyLazyLoad |-> TRUE]
  /\ srvSeries = 0
  /\ srvInst = [s \in SeriesIds |-> 0]
  /\ calls = [c \in CallIds |-> IdleCall]
  /\ cacheSeries = {}
  /\ cacheInstances = {}
  /\ isLoaded = FALSE
  /\ imageIdToUIDs = {}
  /\ bdValue = NoBulkValue
  /\ bdInvocations = <<>>
  /\ bdTransportCalls = 0
  /\ displaySet = NoDisplaySet
  /\ dsResult = NotCalled
  /\ authHeader \in Headers
  /\ qidoHeaders = authHeader
  /\ wadoHeaders = authHeader
  /\ transport = NoTransport
  /\ reload = NoReload
  /\ SummaryIdle
  /\ ConfigIdle
  /\ UiIdle

NextAuth ==
  \/ \E h \in Headers : setAuthorizationHeader(h)
  \/ \E kind \in QidoKinds : qidoCall(kind)
  \/ \E kind \in WadoKinds : wadoCall(kind)
  \/ bulkDataCall
  \/ initClientsHeaders

SpecAuth == InitAuth /\ [][NextAuth]_vars

\* ------------------------------------- eager: seriesSummaryMetadata
MaxData == 3        \* instances in one eager response: 0..MaxData

\* A naturalized instance as the forEach reads it: its series and the
\* descriptive attributes copied into a summary (SeriesDescription stands
\* also for SeriesNumber, SeriesTime and ProtocolName, Modality also for
\* SOPClassUID).
Descriptions == {"AX T1", "AX T2"}
Modalities == {"MR", "CT"}
SummaryInstances ==
  [SeriesInstanceUID : SeriesIds, SeriesDescription : Descriptions,
   Modality : Modalities]
DataLists == UNION {[1..n -> SummaryInstances] : n \in 0..MaxData}

\* As seriesSummaryStep with the summary written for every instance.
seriesSummaryStepOverwriting(summaries, instance) ==
  {r \in summaries : r.SeriesInstanceUID # instance.SeriesInstanceUID}
  \cup {instance}

\* One iteration of the forEach: a summary is created from the instance when
\* its series has none yet.
seriesSummaryStep(summaries, instance) ==
  IF \E r \in summaries : r.SeriesInstanceUID = instance.SeriesInstanceUID
  THEN summaries
  ELSE summaries \cup {instance}

\* seriesSummaryMetadata after the first n iterations.
RECURSIVE seriesSummaryMetadata(_, _)
seriesSummaryMetadata(data, n) ==
  IF n = 0 THEN {}
  ELSE seriesSummaryStep(seriesSummaryMetadata(data, n - 1), data[n])

buildSeriesSummaries ==
  /\ ~syncSummary.called
  /\ syncSummary' =
       [called |-> TRUE,
        summaries |-> seriesSummaryMetadata(syncData, Len(syncData))]
  /\ UNCHANGED syncData
  /\ UNCHANGED <<orchVars, bulkVars, dsVars, authVars, reload, cfgVars,
                 uiVars>>

\* The eager forEach over any response within the bounds.
InitSummary ==
  /\ dicomWebConfig = [enableStudyLazyLoad |-> FALSE]
  /\ srvSeries = 0
  /\ srvInst = [s \in SeriesIds |-> 0]
  /\ calls = [c \in CallIds |-> IdleCall]
  /\ cacheSeries = {}
  /\ cacheInstances = {}
  /\ isLoaded = FALSE
  /\ imageIdToUIDs = {}
  /\ bdValue = NoBulkValue
  /\ bdInvocations = <<>>
  /\ bdTransportCalls = 0
  /\ displaySet = NoDisplaySet
  /\ dsResult = NotCalled
  /\ AuthIdle
  /\ reload = NoReload
  /\ syncData \in DataLists
  /\ syncSummary = NoSummary
  /\ ConfigIdle
  /\ UiIdle

NextSummary == buildSeriesSummaries

SpecSummary == InitSummary /\ [][NextSummary]_vars

\* ------------------------------------------- module-wide configuration
\* The configurations createDicomWebApi and updateConfig are given.
Configs == [name : {"a", "b"}, enableStudyLazyLoad : BOOLEAN]

\* initClients(config): _dicomWebConfig is replaced and both clients are
\* rebuilt from config.
initClients(config) == [config |-> config, qido |-> config, wado |-> config]

\* As configInUse with each data source reading the webConfig it was
\* created with.
configInUseOwn(i) == cfgOwn[i]

\* _dicomWebConfig as a step of data source i reads it.
configInUse(i) == cfgModule.config

\* The configuration _qidoDicomWebClient was built from, as a step of data
\* source i finds it.
qidoClientInUse(i) == cfgModule.qido

\* createDicomWebApi(webConfig, ...): the data source keeps webConfig in its
\* closure and calls initClients(webConfig).
createDicomWebApi(i, c) ==
  /\ cfgOwn[i] = NoConfig
  /\ cfgOwn' = [cfgOwn EXCEPT ![i] = c]
  /\ cfgModule' = initClients(c)
  /\ cfgWritten' = c
  /\ UNCHANGED <<cfgLazy, cfgUse>>
  /\ UNCHANGED <<orchVars, bulkVars, dsVars, authVars, reload, sumVars,
                 uiVars>>

\* implementation.updateConfig(dicomWebConfig) of data source i.
updateConfigOf(i, c) ==
  /\ cfgOwn[i] # NoConfig
  /\ cfgModule' = initClients(c)
  /\ cfgWritten' = c
  /\ UNCHANGED <<cfgOwn, cfgLazy, cfgUse>>
  /\ UNCHANGED <<orchVars, bulkVars, dsVars, authVars, reload, sumVars,
                 uiVars>>

\* retrieve.series.metadata of data source i: the strategy is selected by
\* _dicomWebConfig.enableStudyLazyLoad; a lazy retrieval is then in flight.
selectStrategy(i) ==
  /\ cfgOwn[i] # NoConfig /\ ~cfgLazy[i]
  /\ cfgUse' = [kind |-> "strategy", by |-> i, config |-> configInUse(i),
                written |-> cfgWritten]
  /\ cfgLazy' = [cfgLazy EXCEPT ![i] = configInUse(i).enableStudyLazyLoad]
  /\ UNCHANGED <<cfgModule, cfgOwn, cfgWritten>>
  /\ UNCHANGED <<orchVars, bulkVars, dsVars, authVars, reload, sumVars,
                 uiVars>>

\* A storeInstances reaction of the lazy retrieval in flight:
\* getImageIdsForInstance passes _dicomWebConfig to getImageId.
synthesizeImageId(i) ==
  /\ cfgLazy[i]
  /\ cfgUse' = [kind |-> "imageId", by |-> i, config |-> configInUse(i),
                written |-> cfgWritten]
  /\ UNCHANGED <<cfgModule, cfgOwn, cfgWritten, cfgLazy>>
  /\ UNCHANGED <<orchVars, bulkVars, dsVars, authVars, reload, sumVars,
                 uiVars>>

\* The lazy retrieval of data source i returns.
lazyReturns(i) ==
  /\ cfgLazy[i]
  /\ cfgLazy' = [cfgLazy EXCEPT ![i] = FALSE]
  /\ UNCHANGED <<cfgModule, cfgOwn, cfgWritten, cfgUse>>
  /\ UNCHANGED <<orchVars, bulkVars, dsVars, authVars, reload, sumVars,
                 uiVars>>

\* value.retrieveBulkData() of an instance data source i stored: the call
\* goes through _qidoDicomWebClient.
invokeAccessor(i) ==
  /\ cfgOwn[i] # NoConfig
  /\ cfgUse' = [kind |-> "bulkData", by |-> i, config |-> qidoClientInUse(i),
                written |-> cfgWritten]
  /\ UNCHANGED <<cfgModule, cfgOwn, cfgWritten, cfgLazy>>
  /\ UNCHANGED <<orchVars, bulkVars, dsVars, authVars, reload, sumVars,
                 uiVars>>

\* The default of withCredentials in retrieve.series.metadata:
\* !!webConfig.withCredentials, read from the data source's closure.
withCredentialsDefault(i) ==
  /\ cfgOwn[i] # NoConfig
  /\ cfgUse' = [kind |-> "withCredentials", by |-> i, config |-> cfgOwn[i],
                written |-> cfgWritten]
  /\ UNCHANGED <<cfgModule, cfgOwn, cfgWritten, cfgLazy>>
  /\ UNCHANGED <<orchVars, bulkVars, dsVars, authVars, reload, sumVars,
                 uiVars>>

InitConfig ==
  /\ dicomWebConfig = [enableStudyLazyLoad |-> FALSE]
  /\ srvSeries = 0
  /\ srvInst = [s \in SeriesIds |-> 0]
  /\ calls = [c \in CallIds |-> IdleCall]
  /\ cacheSeries = {}
  /\ cacheInstances = {}
  /\ isLoaded = FALSE
  /\ imageIdToUIDs = {}
  /\ bdValue = NoBulkValue
  /\ bdInvocations = <<>>
  /\ bdTransportCalls = 0
  /\ displaySet = NoDisplaySet
  /\ dsResult = NotCalled
  /\ ExtIdle

NextConfig ==
  \/ \E i \in DataSources, c \in Configs : createDicomWebApi(i, c)
  \/ \E i \in DataSources, c \in Configs : updateConfigOf(i, c)
  \/ \E i \in DataSources : selectStrategy(i)
  \/ \E i \in DataSources : synthesizeImageId(i)
  \/ \E i \in DataSources : lazyReturns(i)
  \/ \E i \in DataSources : invokeAccessor(i)
  \/ \E i \in DataSources : withCredentialsDefault(i)

\* Two data sources of one page, created and reconfigured in any order.
SpecConfig == InitConfig /\ [][NextConfig]_vars

\* ------------------------------------------------- getImageIdsForStudy
\* What is not the viewer's part of the state.
dataVars == <<orchVars, bulkVars, dsVars, authVars, reload, sumVars, cfgVars>>

\* NumberOfFrames of the naturalized instances of series s, in the order the
\* series fetch delivers them.
seriesImages(s) == [i \in 1..srvInst[s] |-> NumberOfFramesOf(s, i)]

\* The argument getImageIdsForStudy hands to getImageIdsForDisplaySet:
\* { images: naturalizedInstance }, an object literal with no getAttribute.
studyDisplaySet(s) ==
  [hasImages |-> TRUE, images |-> seriesImages(s),
   mapper |-> [kind |-> "noGetAttribute", startIndex |-> 0, endIndex |-> 0]]

\* seriesDatasets.map(...): one getImageIdsForDisplaySet call per series, in
\* the order of the listing.
RECURSIVE mapSeriesDatasets(_)
mapSeriesDatasets(n) ==
  IF n = 0 THEN <<>>
  ELSE mapSeriesDatasets(n - 1)
       \o <<getImageIdsForDisplaySet(studyDisplaySet(n))>>

\* getImageIdsForStudy(StudyInstanceUID): the listing is awaited, then
\* Promise.all of one retrieveSeriesMetadata per series, then the map; an
\* exception anywhere rejects the call.
getImageIdsForStudy(listing, ok) ==
  LET results == mapSeriesDatasets(srvSeries)
      threw == \/ ~listing
               \/ \E s \in StudySeries : ~ok[s]
               \/ \E j \in DOMAIN results : results[j].threw
  IN [called |-> TRUE, listing |-> listing, ok |-> ok, threw |-> threw,
      lists |-> IF threw THEN <<>>
                ELSE [j \in DOMAIN results |-> results[j].imageIds]]

callGetImageIdsForStudy(listing, ok) ==
  /\ ~studyIds.called
  /\ ~listing => \A s \in SeriesIds : ok[s]
  /\ \A s \in SeriesIds \ StudySeries : ok[s]
  /\ studyIds' = getImageIdsForStudy(listing, ok)
  /\ UNCHANGED <<initCall, grid, toolGroups, panes>>
  /\ UNCHANGED dataVars

NextStudyIds ==
  \E listing \in BOOLEAN, ok \in [SeriesIds -> BOOLEAN] :
    callGetImageIdsForStudy(listing, ok)

\* One getImageIdsForStudy call for a study of any content within the bounds.
SpecStudyIds == Init /\ [][NextStudyIds]_vars

\* ---------------------------------------------------------- initialize
MaxUIDs == 2        \* values of one key in the query string or the route

\* query.getAll(key): the values of the key in the query string, an array
\* that is empty when the key is absent.
QueryValues == UNION {[1..n -> {"q1", "q2"}] : n \in 0..MaxUIDs}

\* params[key]: absent, one string, or an array of strings.
ParamValues ==
  {NoInitArgs, [str |-> "p1", items |-> <<>>, kind |-> "string"]}
  \cup {[str |-> "", items |-> a, kind |-> "array"] :
          a \in UNION {[1..n -> {"p1", "p2"}] : n \in 0..MaxUIDs}}

\* An array as a value.
arrayValue(a) == [str |-> "", items |-> a, kind |-> "array"]

\* (queryStudyInstanceUIDs.length && queryStudyInstanceUIDs) ||
\* paramsStudyInstanceUIDs
studyOperand(queryValues, paramsValue) ==
  IF Len(queryValues) # 0 THEN arrayValue(queryValues) ELSE paramsValue

\* querySeriesInstanceUIDs || paramsSeriesInstanceUIDs: an array is truthy,
\* empty or not.
seriesOperand(queryValues, paramsValue) == arrayValue(queryValues)

\* v && Array.isArray(v) ? v : [v]; an absent value is wrapped as
\* [undefined].
asArray(v) ==
  CASE v.kind = "array" -> v.items
    [] v.kind = "string" -> <<v.str>>
    [] OTHER -> <<Undefined>>

\* initialize({ params, query }).
initialize(params, query) ==
  [called |-> TRUE,
   studyInstanceUIDs |->
     asArray(studyOperand(query.StudyInstanceUIDs, params.StudyInstanceUIDs)),
   seriesInstanceUIDs |->
     asArray(seriesOperand(query.SeriesInstanceUIDs,
                           params.SeriesInstanceUIDs))]

callInitialize ==
  /\ ~initCall.result.called
  /\ initCall' = [initCall EXCEPT
                    !.result = initialize(initCall.params, initCall.query)]
  /\ UNCHANGED <<studyIds, grid, toolGroups, panes>>
  /\ UNCHANGED dataVars

InitInitialize ==
  /\ dicomWebConfig = [enableStudyLazyLoad |-> FALSE]
  /\ srvSeries = 0
  /\ srvInst = [s \in SeriesIds |-> 0]
  /\ calls = [c \in CallIds |-> IdleCall]
  /\ cacheSeries = {}
  /\ cacheInstances = {}
  /\ isLoaded = FALSE
  /\ imageIdToUIDs = {}
  /\ bdValue = NoBulkValue
  /\ bdInvocations = <<>>
  /\ bdTransportCalls = 0
  /\ displaySet = NoDisplaySet
  /\ dsResult = NotCalled
  /\ AuthIdle /\ reload = NoReload /\ SummaryIdle /\ ConfigIdle
  /\ studyIds = NoStudyIds
  /\ initCall \in [params : [StudyInstanceUIDs : ParamValues,
                              SeriesInstanceUIDs : ParamValues],
                    query : [StudyInstanceUIDs : QueryValues,
                             SeriesInstanceUIDs : QueryValues],
                    result : {NoInitCall}]
  /\ grid = NoGrid
  /\ toolGroups = <<>>
  /\ panes = NoPanes

NextInitialize == callInitialize

\* One initialize call with any route params and query string within the
\* bounds.
SpecInitialize == InitInitialize /\ [][NextInitialize]_vars

\* ------------------------------------------------ viewer commands (grid)
MaxViewports == 3   \* viewports of the grid

\* The tool groups viewports are assigned to.
ToolGroupIds == {"default", "mpr"}

\* viewportInfo.getViewportId() of the viewport at an index, and the source
\* of a ReferenceLines tool nothing was configured on.
viewportIdOf(index) == <<"viewport", index>>
NoViewportId == <<"undefined">>

\* As incrementIndex without the modulo.
incrementIndexNoWrap(activeViewportIndex, length) == activeViewportIndex + 1

\* (activeViewportIndex + 1) % viewports.length
incrementIndex(activeViewportIndex, length) ==
  (activeViewportIndex + 1) % length

\* (activeViewportIndex - 1 + viewports.length) % viewports.length
decrementIndex(activeViewportIndex, length) ==
  (activeViewportIndex - 1 + length) % length

incrementActiveViewport ==
  /\ grid.viewports >= 1
  /\ grid' = [grid EXCEPT
                !.activeViewportIndex = incrementIndex(@, grid.viewports),
                !.last = "increment", !.from = grid.activeViewportIndex]
  /\ UNCHANGED <<studyIds, initCall, toolGroups, panes>>
  /\ UNCHANGED dataVars

decrementActiveViewport ==
  /\ grid.viewports >= 1
  /\ grid' = [grid EXCEPT
                !.activeViewportIndex = decrementIndex(@, grid.viewports),
                !.last = "decrement", !.from = grid.activeViewportIndex]
  /\ UNCHANGED <<studyIds, initCall, toolGroups, panes>>
  /\ UNCHANGED dataVars

\* onInteractionHandler of a pane that is not the active one.
onInteraction(viewportIndex) ==
  /\ viewportIndex \in 0..(grid.viewports - 1)
  /\ viewportIndex # grid.activeViewportIndex
  /\ grid' = [grid EXCEPT !.activeViewportIndex = viewportIndex,
                          !.last = "interaction",
                          !.from = grid.activeViewportIndex]
  /\ UNCHANGED <<studyIds, initCall, toolGroups, panes>>
  /\ UNCHANGED dataVars

\* The ReferenceLines tool of a tool group after toggleReferenceLines: it is
\* disabled when toggledState is false, then, in either case, its source
\* viewport is overwritten and it is enabled.
referenceLinesAfter(tool, toggledState, viewportId) ==
  LET disabled == IF ~toggledState THEN [tool EXCEPT !.mode = "Disabled"]
                  ELSE tool
      configured == [disabled EXCEPT !.sourceViewportId = viewportId]
  IN [configured EXCEPT !.mode = "Enabled"]

\* The tool group of the active viewport.
activeToolGroup == grid.toolGroupOf[grid.activeViewportIndex + 1]

toggleReferenceLines(toggledState) ==
  /\ grid.viewports >= 1
  /\ toolGroups' = [toolGroups EXCEPT ![activeToolGroup] =
                      referenceLinesAfter(@, toggledState,
                        viewportIdOf(grid.activeViewportIndex))]
  /\ grid' = [grid EXCEPT
                !.last = IF toggledState THEN "toggleOn" ELSE "toggleOff",
                !.from = grid.activeViewportIndex]
  /\ UNCHANGED <<studyIds, initCall, panes>>
  /\ UNCHANGED dataVars

InitGrid ==
  /\ dicomWebConfig = [enableStudyLazyLoad |-> FALSE]
  /\ srvSeries = 0
  /\ srvInst = [s \in SeriesIds |-> 0]
  /\ calls = [c \in CallIds |-> IdleCall]
  /\ cacheSeries = {}
  /\ cacheInstances = {}
  /\ isLoaded = FALSE
  /\ imageIdToUIDs = {}
  /\ bdValue = NoBulkValue
  /\ bdInvocations = <<>>
  /\ bdTransportCalls = 0
  /\ displaySet = NoDisplaySet
  /\ dsResult = NotCalled
  /\ AuthIdle /\ reload = NoReload /\ SummaryIdle /\ ConfigIdle
  /\ studyIds = NoStudyIds
  /\ initCall = NoInit
  /\ \E n \in 1..MaxViewports, a \in 0..(MaxViewports - 1) :
       /\ a < n
       /\ \E t \in [1..n -> ToolGroupIds] :
            grid = [viewports |-> n, activeViewportIndex |-> a,
                    toolGroupOf |-> t, last |-> "none", from |-> a]
  /\ toolGroups = [g \in ToolGroupIds |->
                     [mode |-> "Disabled", sourceViewportId |-> NoViewportId]]
  /\ panes = NoPanes

NextGrid ==
  \/ incrementActiveViewport
  \/ decrementActiveViewport
  \/ \E i \in 0..(MaxViewports - 1) : onInteraction(i)
  \/ \E toggledState \in BOOLEAN : toggleReferenceLines(toggledState)

\* A grid of one to MaxViewports viewports and any sequence of the commands.
SpecGrid == InitGrid /\ [][NextGrid]_vars

\* ------------------------------------------- viewport grid: checkReady
MaxPanes == 3       \* panes of one rendering
MaxReports == 3     \* onViewportDataLoad calls of one pane

\* readyViewports === numViewportPanes, tested after the increment.
allReady(readyViewports, numViewportPanes) ==
  readyViewports = numViewportPanes

\* checkReady() as pane p calls it through onViewportDataLoad: the counter of
\* the rendering is incremented, and the protocol's
\* onLayoutViewportDataContainersLoaded command is run when the counter
\* equals the number of panes and the protocol has the callback.
checkReady(rendering, p) ==
  LET ready == rendering.readyViewports + 1
      reports == [rendering.reports EXCEPT ![p] = @ + 1]
      run == allReady(ready, rendering.numViewportPanes)
             /\ rendering.layoutLoaded
  IN [rendering EXCEPT
        !.readyViewports = ready,
        !.reports = reports,
        !.runs = IF run THEN @ + 1 ELSE @,
        !.ranAt = IF run THEN reports ELSE @]

onViewportDataLoad(p) ==
  /\ p \in 1..panes.numViewportPanes
  /\ panes.reports[p] < MaxReports
  /\ panes' = checkReady(panes, p)
  /\ UNCHANGED <<studyIds, initCall, grid, toolGroups>>
  /\ UNCHANGED dataVars

InitPanes ==
  /\ dicomWebConfig = [enableStudyLazyLoad |-> FALSE]
  /\ srvSeries = 0
  /\ srvInst = [s \in SeriesIds |-> 0]
  /\ calls = [c \in CallIds |-> IdleCall]
  /\ cacheSeries = {}
  /\ cacheInstances = {}
  /\ isLoaded = FALSE
  /\ imageIdToUIDs = {}
  /\ bdValue = NoBulkValue
  /\ bdInvocations = <<>>
  /\ bdTransportCalls = 0
  /\ displaySet = NoDisplaySet
  /\ dsResult = NotCalled
  /\ AuthIdle /\ reload = NoReload /\ SummaryIdle /\ ConfigIdle
  /\ studyIds = NoStudyIds
  /\ initCall = NoInit
  /\ grid = NoGrid
  /\ toolGroups = <<>>
  /\ \E k \in 1..MaxPanes, layoutLoaded \in BOOLEAN :
       panes = [numViewportPanes |-> k, layoutLoaded |-> layoutLoaded,
                readyViewports |-> 0, reports |-> [p \in 1..k |-> 0],
                runs |-> 0, ranAt |-> <<>>]

NextPanes == \E p \in 1..MaxPanes : onViewportDataLoad(p)

\* One rendering of a grid of one to MaxPanes panes, each pane reporting its
\* data loaded up to MaxReports times, in any order.
SpecPanes == InitPanes /\ [][NextPanes]_vars

NextFor(C) ==
  \/ \E lazy \in BOOLEAN : updateConfig(lazy)
  \/ \E c \in C, uid \in {StudyUID, NoUID} : metadata(c, uid)
  \/ \E c \in C : listingRejected(c)
  \/ \E c \in C : listingDelivered(c)
  \/ \E c \in C, s \in SeriesIds : unitRejected(c, s)
  \/ \E c \in C, s \in SeriesIds, fault \in Faults, k \in 0..MaxInst :
       unitDelivered(c, s, fault, k)
  \/ \E c \in C : setSuccessFlag(c)
  \/ \E c \in C, ok \in [SeriesIds -> BOOLEAN], fault \in SyncFaults,
        k \in 0..(MaxSeries * MaxInst) : syncSettled(c, ok, fault, k)

\* One retrieval of a study of any content within the bounds.
Next == NextFor(SoloCall)

Spec == Init /\ [][Next]_vars

\* Two retrievals of one study, overlapping or one after the other; every
\* series of the study holds at most one instance.
InitOverlap == Init /\ \A s \in StudySeries : srvInst[s] \in {0, 1}

NextOverlap == NextFor(CallIds)

SpecOverlap == InitOverlap /\ [][NextOverlap]_vars

\* --------------------------------------------------------------- reload
\* The store's owner deletes the study (the delete half of a reload): its
\* series, instances and isLoaded are gone. reload remembers whether the
\* retrieval was awaiting its units of work then, and which were pending.
deleteStudy ==
  /\ ~reload.deleted
  /\ cacheSeries' = {}
  /\ cacheInstances' = {}
  /\ isLoaded' = FALSE
  /\ reload' = [deleted |-> TRUE,
                inFlight |-> \E c \in SoloCall : calls[c].pc = "units",
                pending |-> {s \in StudySeries :
                               \E c \in SoloCall : calls[c].units[s] = "pending"}]
  /\ UNCHANGED <<dicomWebConfig, srvSeries, srvInst, calls, imageIdToUIDs>>
  /\ UNCHANGED <<bulkVars, dsVars, authVars, sumVars, cfgVars,
                 uiVars>>

NextReload == Next \/ deleteStudy

\* A series fetch of a lazy retrieval settles while the listing is still
\* awaited: no reaction is attached to it yet.
fetchSettledEarly(c, s) ==
  /\ calls[c].pc = "listing"
  /\ s \in StudySeries \ calls[c].early
  /\ calls' = [calls EXCEPT ![c].early = @ \cup {s}]
  /\ UNCHANGED <<dicomWebConfig, srvSeries, srvInst, cacheSeries,
                 cacheInstances, isLoaded, imageIdToUIDs>>
  /\ UNCHANGED <<bulkVars, dsVars, extVars>>

NextSettle == Next \/ \E c \in SoloCall, s \in SeriesIds : fetchSettledEarly(c, s)

\* One retrieval of a study whose series fetches may settle before the
\* listing returns.
SpecSettle == Init /\ [][NextSettle]_vars

\* One retrieval of a study and one external delete of that study.
SpecReload == Init /\ [][NextReload]_vars

\* The event loop runs every reaction that is ready, and every series fetch
\* settles.
Fairness ==
  \A c \in SoloCall :
    /\ WF_vars(setSuccessFlag(c))
    /\ \A s \in SeriesIds :
         WF_vars(unitRejected(c, s)
                 \/ \E fault \in Faults, k \in 0..MaxInst :
                      unitDelivered(c, s, fault, k))

LiveSpec == Init /\ [][Next]_vars /\ Fairness

\* ------------------------------------------------------------------ claims
Terminal(u) == u \in {"fulfilled", "rejected"}
Lazy(c) == calls[c].strategy = "lazy"
Eager(c) == calls[c].strategy = "eager"
Returned(c) == calls[c].pc = "done" /\ calls[c].result = "fulfilled"

\* The instance records a call passed to addInstances, and those of a series.
Committed(c) == UNION {{b[j] : j \in DOMAIN b} : b \in calls[c].batches}
CommittedOf(c, s) == {r \in Committed(c) : r.SeriesInstanceUID = s}
CachedOf(s) == {r \in cacheInstances : r.SeriesInstanceUID = s}
Sops(recs) == {r.SOPInstanceUID : r \in recs}

\* C1, as claimed: isLoaded is true only if every unit of work any lazy
\* retrieval has started for the study is fulfilled or rejected.
C1_LoadedOnlyAfterEveryUnit ==
  isLoaded => \A c \in CallIds, s \in SeriesIds : calls[c].units[s] # "pending"

\* C1, amended: isLoaded is true only if some lazy retrieval of the study has
\* returned, and a lazy retrieval returns only when every unit of work it
\* started itself is fulfilled or rejected.
C1_LoadedOnlyAfterOwnUnits ==
  /\ isLoaded => \E c \in CallIds : Lazy(c) /\ Returned(c)
  /\ \A c \in CallIds :
       Lazy(c) /\ calls[c].pc = "done" /\ calls[c].error # "transport" =>
         \A s \in StudySeries : Terminal(calls[c].units[s])

C1_Witness ==
  /\ isLoaded
  /\ \E c \in CallIds :
       /\ Lazy(c) /\ Returned(c)
       /\ \E s \in StudySeries : calls[c].units[s] = "rejected"
       /\ \E s \in StudySeries : calls[c].units[s] = "fulfilled"
  /\ \E d \in CallIds : Lazy(d) /\ calls[d].pc = "units"

\* C2: a lazy retrieval whose listing arrived and whose units all settle
\* eventually returns without a failure, with isLoaded true, whichever units
\* were rejected.
C2_LazyCompletes ==
  \A c \in SoloCall :
    (calls[c].pc = "units") ~>
      (calls[c].pc = "done" /\ calls[c].result = "fulfilled" /\ isLoaded)

C2_Witness ==
  \E c \in SoloCall :
    /\ Lazy(c) /\ Returned(c) /\ isLoaded
    /\ srvSeries = MaxSeries
    /\ \A s \in StudySeries : calls[c].units[s] = "rejected"

\* C3: once a lazy retrieval has returned, the cache holds, of each series
\* whose unit of work was fulfilled, exactly the instances its fetch
\* delivered, and of each series whose unit was rejected, none.
C3_CommittedIffSucceeded ==
  \A c \in SoloCall :
    Lazy(c) /\ Returned(c) =>
      \A s \in StudySeries :
        /\ calls[c].units[s] = "fulfilled" =>
             /\ Sops(CachedOf(s)) = 1..srvInst[s]
             /\ CommittedOf(c, s) = CachedOf(s)
        /\ calls[c].units[s] = "rejected" =>
             CachedOf(s) = {} /\ CommittedOf(c, s) = {}

C3_Witness ==
  \E c \in SoloCall :
    /\ Lazy(c) /\ Returned(c)
    /\ \E s \in StudySeries :
         calls[c].units[s] = "fulfilled" /\ Cardinality(CachedOf(s)) = MaxInst
    /\ \E s \in StudySeries :
         calls[c].units[s] = "rejected" /\ srvInst[s] > 0

\* C4: a rejected unit of work (a rejected fetch, or storeInstances throwing)
\* has committed no instance of its series, leaves every pending sibling able
\* to commit, and never makes the retrieval fail.
C4_FailureIsolated ==
  \A c \in SoloCall :
    /\ \A s \in StudySeries :
         calls[c].units[s] = "rejected" =>
           /\ CommittedOf(c, s) = {} /\ CachedOf(s) = {}
           /\ \A t \in StudySeries :
                calls[c].units[t] = "pending" =>
                  ENABLED unitDelivered(c, t, "none", 0)
    /\ Lazy(c) /\ calls[c].result = "rejected" =>
         \A s \in SeriesIds : calls[c].units[s] = "none"

C4_Witness ==
  \E c \in SoloCall :
    /\ Lazy(c) /\ Returned(c)
    /\ \E s, t \in StudySeries :
         /\ calls[c].units[s] = "rejected"
         /\ getImageIdsForInstance(s, 1) \in imageIdToUIDs
         /\ calls[c].units[t] = "fulfilled"
         /\ CachedOf(t) # {}

\* C5: the step in which an eager retrieval learns that a series fetch failed
\* rejects the call and leaves the cache as it was.
C5_EagerFailureCommitsNothing ==
  [][\A c \in CallIds :
       calls[c].pc = "fetching" /\ calls'[c].pc = "done"
       /\ calls'[c].fetchFailed =>
         /\ calls'[c].result = "rejected"
         /\ calls'[c].summaries = {} /\ calls'[c].batches = {}
         /\ cacheSeries' = cacheSeries
         /\ cacheInstances' = cacheInstances]_vars

C5_Witness ==
  \E c, d \in CallIds :
    /\ Eager(c) /\ calls[c].pc = "done" /\ calls[c].fetchFailed
    /\ calls[c].result = "rejected"
    /\ srvSeries = MaxSeries
    /\ Lazy(d) /\ cacheInstances # {}

\* C6, as claimed: an eager retrieval whose fetches all succeed commits one
\* summary for every series of the study and every instance exactly once,
\* grouped by series.
C6_EagerCommitsEverySeries ==
  \A c \in SoloCall :
    Eager(c) /\ Returned(c) =>
      /\ calls[c].summaries = StudySeries
      /\ \A s \in StudySeries : Sops(CachedOf(s)) = 1..srvInst[s]

\* C6, amended: it commits one summary for every series of the study that has
\* at least one instance, and every instance exactly once, in one list per
\* such series.
C6_EagerCommitsEveryNonEmptySeries ==
  \A c \in SoloCall :
    Eager(c) /\ Returned(c) =>
      LET nonEmpty == {s \in StudySeries : srvInst[s] > 0}
      IN /\ calls[c].summaries = nonEmpty
         /\ cacheSeries = nonEmpty
         /\ calls[c].adds = Cardinality(nonEmpty)
         /\ Cardinality(calls[c].batches) = Cardinality(nonEmpty)
         /\ \A b \in calls[c].batches :
              \E s \in nonEmpty :
                /\ Len(b) = srvInst[s]
                /\ \A j \in DOMAIN b :
                     b[j].SeriesInstanceUID = s /\ b[j].SOPInstanceUID = j
         /\ \A s \in StudySeries :
              /\ Sops(CachedOf(s)) = 1..srvInst[s]
              /\ Cardinality(CachedOf(s)) = srvInst[s]

C6_Witness ==
  \E c \in SoloCall :
    /\ Eager(c) /\ Returned(c)
    /\ srvSeries = MaxSeries
    /\ srvInst[1] = 0
    /\ srvInst[MaxSeries] = MaxInst
    /\ cacheSeries = {MaxSeries}

C8_SecondInvocationIsCached ==
  Len(bdInvocations) >= 2
  /\ bdInvocations[1].state = "fulfilled"
  /\ bdInvocations[2].state = "fulfilled"
  /\ bdInvocations[2].sequential =>
    /\ Cardinality({j \in 1..2 : bdInvocations[j].issued}) <= 1
    /\ bdInvocations[1].ret = bdInvocations[2].ret

\* C9: once Value holds a resolved value, no step changes it.
C9_ResolvedOnce ==
  [][Truthy(bdValue.Value) /\ bdValue.accessor =>
       bdValue'.Value = bdValue.Value]_vars

\* C10: every instance in the cache has an accessor on exactly the attribute
\* values that carry a BulkDataURI and no inline Value.
C10_AccessorOnEveryBulkValue ==
  \A r \in cacheInstances :
    r.retrieveBulkData =
      {key \in NaturalNames :
         LET value == naturalizeDataset(WireInstance)[key]
         IN value.BulkDataURI /\ ~Truthy(value.Value)}

\* C11: in both strategies every instance record visible in the cache carries
\* the imageId computed for it; none is committed with its imageId unassigned.
C11_CachedInstanceHasImageId ==
  \A r \in cacheInstances :
    /\ r.imageId # Unassigned
    /\ r.imageId = getImageIdsForInstance(r.SeriesInstanceUID, r.SOPInstanceUID)

C11_Witness ==
  /\ \E c \in CallIds : Eager(c) /\ Returned(c) /\ calls[c].adds > 0
  /\ \E d \in CallIds, s \in StudySeries :
       Lazy(d) /\ calls[d].units[s] = "fulfilled" /\ srvInst[s] > 0
  /\ cacheInstances # {}

\* The SOPInstanceUIDs a store holds of series s.
SopsIn(store, s) == {r.SOPInstanceUID : r \in {x \in store : x.SeriesInstanceUID = s}}

\* C12: under the lazy strategy, in every state a callback can observe, the
\* cache holds of each series of the study either none or all of the instances
\* its fetch delivers, and none while the series' unit of work is pending.
C12_SeriesCommittedAtOnce ==
  \A c \in SoloCall :
    Lazy(c) =>
      \A s \in StudySeries :
        /\ SopsIn(cacheInstances, s) \in {{}, 1..srvInst[s]}
        /\ calls[c].units[s] = "pending" => SopsIn(cacheInstances, s) = {}

\* One series is committed whole next to a sibling whose storeInstances threw
\* after it had processed its first instance.
C12_Witness ==
  \E c \in SoloCall, s \in StudySeries, t \in StudySeries :
    /\ Lazy(c) /\ calls[c].pc = "units"
    /\ srvInst[s] = MaxInst /\ srvInst[t] = MaxInst
    /\ calls[c].units[s] = "fulfilled"
    /\ SopsIn(cacheInstances, s) = 1..MaxInst
    /\ calls[c].units[t] = "rejected"
    /\ getImageIdsForInstance(t, 1) \in imageIdToUIDs
    /\ SopsIn(cacheInstances, t) = {}

\* C13, as claimed: once the listing has arrived, a lazy retrieval has
\* returned to its caller although units of work are still pending.
C13_ReturnsBeforeUnitsSettle ==
  \A c \in SoloCall :
    /\ Lazy(c) /\ calls[c].pc \in {"units", "done"}
    /\ \E s \in StudySeries : calls[c].units[s] = "pending"
    => calls[c].result = "fulfilled"

\* C13, amended: once the listing has arrived the series summaries are in the
\* cache, whatever the state of the units of work; the retrieval itself has
\* not returned while it awaits them, and returns only when every unit is
\* fulfilled or rejected.
C13_SummariesBeforeUnitsSettle ==
  \A c \in SoloCall :
    /\ Lazy(c) /\ calls[c].pc = "units" =>
         /\ calls[c].summaries = preLoadData
         /\ preLoadData \subseteq cacheSeries
         /\ calls[c].result = "pending"
    /\ Lazy(c) /\ calls[c].result = "fulfilled" =>
         \A s \in StudySeries : Terminal(calls[c].units[s])

C13_Witness ==
  \E c \in SoloCall :
    /\ Lazy(c) /\ calls[c].pc = "units" /\ calls[c].result = "pending"
    /\ srvSeries = MaxSeries
    /\ \A s \in StudySeries : calls[c].units[s] = "pending"
    /\ cacheSeries = StudySeries

\* C14: under the lazy strategy the step that fulfils a series' unit of work
\* is the step that puts the series' instances into the cache, and it leaves
\* isLoaded alone; the continuation of the completion barrier commits no
\* instance.
C14_CommittedWhenUnitFulfils ==
  [][\A c \in SoloCall :
       /\ \A s \in StudySeries :
            calls[c].units[s] = "pending" /\ calls'[c].units[s] = "fulfilled" =>
              /\ SopsIn(cacheInstances, s) = {}
              /\ SopsIn(cacheInstances', s) = 1..srvInst[s]
              /\ isLoaded' = isLoaded
       /\ calls[c].pc = "units" /\ calls'[c].pc = "done" =>
            cacheInstances' = cacheInstances]_vars

\* One series is fully committed while another series of the study is still
\* pending and isLoaded is false.
C14_Witness ==
  \E c \in SoloCall, s \in StudySeries, t \in StudySeries :
    /\ Lazy(c) /\ calls[c].pc = "units" /\ ~isLoaded
    /\ srvInst[s] = MaxInst /\ calls[c].units[s] = "fulfilled"
    /\ SopsIn(cacheInstances, s) = 1..MaxInst
    /\ srvInst[t] > 0 /\ calls[c].units[t] = "pending"
    /\ SopsIn(cacheInstances, t) = {}

\* The identifiers a getImageIdsForDisplaySet call returned for the instance
\* at position j of the display set, in the order returned.
IdsOf(j) == SelectSeq(dsResult.imageIds, LAMBDA id : id[2] = j)

\* The call ran on a display set with images that answers getAttribute.
Answered ==
  /\ dsResult.called /\ ~dsResult.threw
  /\ displaySet.hasImages /\ displaySet.mapper.kind # "noGetAttribute"

\* The display set supplies no range-mapping function.
Unmapped == displaySet.mapper.kind \in {"absent", "notFunction"}

\* The identifiers are grouped by instance, in the order of the instances.
InInstanceOrder ==
  \A a, b \in DOMAIN dsResult.imageIds :
    a < b => dsResult.imageIds[a][2] <= dsResult.imageIds[b][2]

\* C15: an instance whose NumberOfFrames is 1 or absent gets exactly one
\* identifier, computed without a frame, with or without a mapper.
C15_SingleFrameOneId ==
  Answered =>
    \A j \in DOMAIN displaySet.images :
      displaySet.images[j] <= 1 => IdsOf(j) = <<getImageId(j, NoFrame)>>

C15_Witness ==
  /\ Answered /\ displaySet.mapper.kind = "function"
  /\ displaySet.mapper.startIndex = 2 /\ displaySet.mapper.endIndex = 3
  /\ Len(displaySet.images) = MaxImages
  /\ displaySet.images[1] = 1 /\ displaySet.images[2] = 0
  /\ Len(dsResult.imageIds) = MaxImages

\* C16: without a mapper, an instance with NumberOfFrames = N > 1 gets exactly
\* the identifiers of frames 1..N in increasing order, and the identifiers of
\* several instances follow the order of the instances.
C16_DefaultRangeAllFrames ==
  Answered /\ Unmapped =>
    /\ \A j \in DOMAIN displaySet.images :
         displaySet.images[j] > 1 =>
           IdsOf(j) = [f \in 1..displaySet.images[j] |-> getImageId(j, <<f>>)]
    /\ InInstanceOrder

C16_Witness ==
  /\ Answered /\ Unmapped
  /\ Len(displaySet.images) = MaxImages
  /\ \A j \in DOMAIN displaySet.images : displaySet.images[j] = MaxFrames
  /\ Len(dsResult.imageIds) = MaxImages * MaxFrames

\* C17: with a mapper returning (startIndex, endIndex), a multi-frame instance
\* gets exactly the identifiers of frames startIndex..endIndex in increasing
\* order, whatever its NumberOfFrames.
C17_MapperRangeReplacesDefault ==
  Answered /\ displaySet.mapper.kind = "function" =>
    LET startIndex == displaySet.mapper.startIndex
        endIndex == displaySet.mapper.endIndex
        count == IF endIndex >= startIndex THEN endIndex - startIndex + 1 ELSE 0
    IN /\ \A j \in DOMAIN displaySet.images :
            displaySet.images[j] > 1 =>
              IdsOf(j) = [x \in 1..count |-> getImageId(j, <<startIndex + x - 1>>)]
       /\ InInstanceOrder

C17_Witness ==
  /\ Answered /\ displaySet.mapper.kind = "function"
  /\ displaySet.mapper.startIndex = 2 /\ displaySet.mapper.endIndex = 3
  /\ displaySet.images = <<MaxFrames>>
  /\ dsResult.imageIds = <<getImageId(1, <<2>>), getImageId(1, <<3>>)>>

\* C18: a call of retrieve.series.metadata that passes the StudyInstanceUID
\* check runs the lazy strategy when enableStudyLazyLoad is set at the call
\* and the eager strategy otherwise; its strategy never changes afterwards,
\* whatever the configuration becomes; an eager call never lists or starts a
\* unit of work and commits only what the eager path builds, a lazy call
\* never enters the eager fetch and commits only what storeInstances builds.
C18_OneStrategyPerCall ==
  /\ [](\A c \in CallIds :
          /\ calls[c].strategy \in {"none", "lazy", "eager"}
          /\ calls[c].strategy = "none" =>
               /\ calls[c].pc \in {"idle", "done"}
               /\ calls[c].batches = {} /\ calls[c].summaries = {}
          /\ Eager(c) =>
               /\ calls[c].pc \in {"fetching", "done"}
               /\ \A s \in SeriesIds : calls[c].units[s] = "none"
               /\ \A r \in Committed(c) :
                    r = syncRecord(r.SeriesInstanceUID, r.SOPInstanceUID)
          /\ Lazy(c) =>
               /\ calls[c].pc \in {"listing", "units", "done"}
               /\ \A r \in Committed(c) :
                    r = lazyRecord(r.SeriesInstanceUID, r.SOPInstanceUID))
  /\ [][\A c \in CallIds :
          /\ calls[c].pc = "idle" /\ calls'[c].pc # "idle" =>
               calls'[c].strategy =
                 IF calls'[c].uid = NoUID THEN "none"
                 ELSE IF dicomWebConfig.enableStudyLazyLoad THEN "lazy"
                 ELSE "eager"
          /\ calls[c].pc # "idle" => calls'[c].strategy = calls[c].strategy]_vars

\* An eager and a lazy retrieval of the same study have both committed: the
\* configuration was changed between the two calls.
C18_Witness ==
  \E c \in CallIds, d \in CallIds :
    /\ Eager(c) /\ Returned(c) /\ calls[c].adds > 0
    /\ Lazy(d) /\ Returned(d) /\ calls[d].adds > 0
    /\ Committed(c) # Committed(d)

\* The identifiers of the instance records of a store, and those the server
\* holds for the study.
Keys(store) == {<<r.SeriesInstanceUID, r.SOPInstanceUID>> : r \in store}
StudyKeys ==
  {k \in SeriesIds \X (1..MaxInst) : k[1] \in StudySeries /\ k[2] <= srvInst[k[1]]}

\* C19: the cache never holds two instance records with one identifier, and
\* once every series and instance of the study is cached, no step of a
\* further retrieval, eager or lazy, changes the set of cached series or the
\* set of cached instance identifiers.
C19_SecondRetrievalAddsNoRecord ==
  /\ [](Cardinality(Keys(cacheInstances)) = Cardinality(cacheInstances))
  /\ [][cacheSeries = StudySeries /\ Keys(cacheInstances) = StudyKeys =>
          /\ cacheSeries' = cacheSeries
          /\ Keys(cacheInstances') = Keys(cacheInstances)]_vars

\* Both retrievals of the study returned, each having committed every
\* instance, one by either strategy.
C19_Witness ==
  /\ \A c \in CallIds : Returned(c) /\ Keys(Committed(c)) = StudyKeys
  /\ Lazy(1) /\ Eager(2)
  /\ srvSeries = MaxSeries /\ \A s \in StudySeries : srvInst[s] > 0
  /\ cacheSeries = StudySeries /\ Keys(cacheInstances) = StudyKeys
  /\ Cardinality(cacheInstances) = MaxSeries

\* C20: no step removes a series or an instance from the cache or resets
\* isLoaded; the series change only by an addSeriesMetadata of some call, the
\* instances only by an addInstances of some call.
C20_CacheOnlyGrows ==
  [][/\ cacheSeries \subseteq cacheSeries'
     /\ Keys(cacheInstances) \subseteq Keys(cacheInstances')
     /\ isLoaded => isLoaded'
     /\ cacheSeries' # cacheSeries =>
          \E c \in CallIds : calls'[c].summaries # calls[c].summaries
     /\ cacheInstances' # cacheInstances =>
          \E c \in CallIds : calls'[c].adds > calls[c].adds]_vars

\* The units of work of two overlapping lazy retrievals have committed the
\* same series one after the other, next to a series committed once.
C20_Witness ==
  /\ \A c \in CallIds : Lazy(c) /\ calls[c].adds > 0
  /\ \E s \in StudySeries :
       \A c \in CallIds : calls[c].units[s] = "fulfilled" /\ srvInst[s] > 0
  /\ calls[1].adds + calls[2].adds > Cardinality(cacheInstances)
  /\ Keys(cacheInstances) = StudyKeys /\ srvSeries = MaxSeries

\* C21: no step of any sequence of eager and lazy retrievals takes isLoaded
\* from true to false, and isLoaded changes only in the step in which a lazy
\* retrieval returns.
C21_LoadedNeverReset ==
  [][/\ isLoaded => isLoaded'
     /\ isLoaded' # isLoaded =>
          \E c \in CallIds :
            Lazy(c) /\ calls[c].pc = "units" /\ calls'[c].pc = "done"]_vars

\* Two lazy retrievals of the study have returned: the later one ran
\* setSuccessFlag when isLoaded was already true.
C21_Witness ==
  /\ isLoaded
  /\ \A c \in CallIds : Returned(c)
  /\ Lazy(1) /\ Lazy(2)

\* C22: every transport call is issued with the value the authorization
\* provider has at that moment, no header included.
C22_CallCarriesCurrentHeader ==
  transport.kind # "none" => transport.headers = transport.provider

\* C23: nothing guards a retrieval against a delete of the study: whether or
\* not the study was deleted, the reaction of every pending unit of work can
\* run storeInstances, and the continuation of the completion barrier can
\* run setSuccessFlag.
C23_NoGuardAfterDelete ==
  \A c \in SoloCall :
    /\ \A s \in StudySeries :
         calls[c].units[s] = "pending" => ENABLED unitDelivered(c, s, "none", 0)
    /\ calls[c].pc = "units" /\ allSettled(calls[c].units) # "pending" =>
         ENABLED setSuccessFlag(c)

\* The stale commit: a unit of work that was pending when the study was
\* deleted has put its series' instances into the cache, and the retrieval
\* has set isLoaded, on a study whose series summaries are gone.
C23_Witness ==
  \E c \in SoloCall, s \in StudySeries :
    /\ reload.deleted /\ reload.inFlight /\ s \in reload.pending
    /\ Lazy(c) /\ Returned(c) /\ isLoaded
    /\ calls[c].units[s] = "fulfilled" /\ srvInst[s] = MaxInst
    /\ SopsIn(cacheInstances, s) = 1..MaxInst
    /\ cacheSeries = {}

\* The store operations an eager call makes when it committed n lists.
EagerOrder(n) == <<"addSeriesMetadata">> \o [j \in 1..n |-> "addInstances"]

\* C24: an eager call makes no store operation while its fetch is in flight;
\* all its store operations happen in the step in which it returns, after
\* the fetch of the whole study succeeded, the summaries first and then the
\* instances of every series; once it has returned it changes nothing.
C24_EagerCommitsBeforeReturn ==
  /\ [](\A c \in SoloCall :
          Eager(c) /\ calls[c].pc = "fetching" =>
            calls[c].log = <<>> /\ cacheSeries = {} /\ cacheInstances = {})
  /\ [][\A c \in SoloCall :
          /\ Eager(c) /\ calls'[c].log # calls[c].log =>
               /\ calls[c].pc = "fetching" /\ Returned(c)'
               /\ ~calls'[c].fetchFailed
               /\ calls'[c].log = EagerOrder(calls'[c].adds)
               /\ Keys(cacheInstances') = StudyKeys
          /\ Eager(c) /\ calls[c].pc = "done" =>
               /\ cacheSeries' = cacheSeries
               /\ cacheInstances' = cacheInstances
               /\ calls'[c] = calls[c]]_vars

C24_Witness ==
  \E c \in SoloCall :
    /\ Eager(c) /\ Returned(c)
    /\ srvSeries = MaxSeries /\ \A s \in StudySeries : srvInst[s] = MaxInst
    /\ calls[c].log = EagerOrder(MaxSeries)
    /\ Keys(cacheInstances) = StudyKeys

\* The position of the first instance of series s in the response.
FirstOf(s) ==
  CHOOSE j \in DOMAIN syncData :
    /\ syncData[j].SeriesInstanceUID = s
    /\ \A i \in 1..(j - 1) : syncData[i].SeriesInstanceUID # s

\* C25: the eager strategy holds one summary for each series that has an
\* instance in the response, with the descriptive attributes of the first
\* instance of that series in the response, whatever the later ones carry.
C25_SummaryFromFirstInstance ==
  syncSummary.called =>
    \A s \in SeriesIds :
      LET mine == {r \in syncSummary.summaries : r.SeriesInstanceUID = s}
      IN IF \E j \in DOMAIN syncData : syncData[j].SeriesInstanceUID = s
         THEN mine = {syncData[FirstOf(s)]}
         ELSE mine = {}

\* A later instance of a series differs from the first in every descriptive
\* attribute, with an instance of another series in between.
C25_Witness ==
  /\ syncSummary.called /\ Len(syncData) = MaxData
  /\ syncData[1].SeriesInstanceUID = syncData[MaxData].SeriesInstanceUID
  /\ syncData[2].SeriesInstanceUID # syncData[1].SeriesInstanceUID
  /\ syncData[1].SeriesDescription # syncData[MaxData].SeriesDescription
  /\ syncData[1].Modality # syncData[MaxData].Modality
  /\ Cardinality(syncSummary.summaries) = 2
  /\ syncData[1] \in syncSummary.summaries

\* C26: every invocation of the accessor issues its own transport call, also
\* one that starts while another is pending, and once all of them have
\* returned the same fetched value, that value is the attribute's Value, in
\* whichever order the responses arrived.
C26_OverlappingInvocations ==
  /\ bdTransportCalls = Len(bdInvocations)
  /\ \A j \in DOMAIN bdInvocations : bdInvocations[j].issued
  /\ \A v \in {"v1", "v2"} :
       /\ bdInvocations # <<>>
       /\ \A j \in DOMAIN bdInvocations :
            bdInvocations[j].state = "fulfilled" /\ bdInvocations[j].ret = v
       => bdValue.Value = v

\* Two invocations overlapped and the response of the second arrived first.
C26_Witness ==
  /\ Len(bdInvocations) = 2 /\ bdTransportCalls = 2
  /\ ~bdInvocations[2].sequential
  /\ bdInvocations[2].arrival = 1 /\ bdInvocations[1].arrival = 2
  /\ \A j \in DOMAIN bdInvocations :
       bdInvocations[j].state = "fulfilled" /\ bdInvocations[j].ret = "v1"
  /\ bdValue.Value = "v1"

C28_PerFrameIdsOnRecord ==
  \A r \in cacheInstances :
    LET instance == <<r.SeriesInstanceUID, r.SOPInstanceUID>>
    IN IF r.NumberOfFrames > 1
       THEN /\ Len(r.imageId) = r.NumberOfFrames
            /\ \A f \in 1..r.NumberOfFrames :
                 r.imageId[f] = getImageId(instance, <<f>>)
       ELSE r.imageId = getImageId(instance, NoFrame)

\* C28, amended: every cached instance record carries one identifier,
\* computed without a frame, whatever its frame count.
C28_OneIdWhateverFrameCount ==
  \A r \in cacheInstances :
    /\ r.NumberOfFrames =
         NumberOfFramesOf(r.SeriesInstanceUID, r.SOPInstanceUID)
    /\ r.imageId =
         getImageId(<<r.SeriesInstanceUID, r.SOPInstanceUID>>, NoFrame)

C28_Witness ==
  /\ \E r \in cacheInstances :
       /\ r.NumberOfFrames = MaxFrames
       /\ r.imageId =
            getImageId(<<r.SeriesInstanceUID, r.SOPInstanceUID>>, NoFrame)
  /\ \E r \in cacheInstances : r.NumberOfFrames = 1
  /\ \E c \in SoloCall : Eager(c) /\ Returned(c)

\* C29: the module holds the configuration given last to createDicomWebApi or
\* updateConfig and clients built from it, and every strategy selection,
\* image-identifier synthesis and bulk-data retrieval of every data source,
\* those of a lazy retrieval in flight included, uses that configuration.
C29_LastWriterWins ==
  /\ cfgModule = initClients(cfgWritten)
  /\ cfgUse.kind \in {"strategy", "imageId", "bulkData"} =>
       cfgUse.config = cfgUse.written

\* A lazy retrieval in flight synthesizes an image identifier with a
\* configuration written after it started, which is neither data source's
\* own.
C29_Witness ==
  /\ \A i \in DataSources : cfgOwn[i] # NoConfig
  /\ cfgUse.kind = "imageId" /\ cfgLazy[cfgUse.by]
  /\ cfgUse.config = cfgWritten
  /\ ~cfgWritten.enableStudyLazyLoad
  /\ \A i \in DataSources : cfgOwn[i] # cfgWritten

\* C30: in a lazy retrieval the series summaries, each carrying the requested
\* StudyInstanceUID, are in the cache before any instance of the retrieval is
\* committed, in whatever order the series fetches settle, those that settled
\* before the listing returned included.
C30_SummariesBeforeInstances ==
  /\ [](\A c \in SoloCall :
         Lazy(c) /\ Committed(c) # {} =>
           /\ Head(calls[c].log) = "addSeriesMetadata"
           /\ preLoadData \subseteq cacheSeries
           /\ calls[c].stamped =
                {[SeriesInstanceUID |-> s, StudyInstanceUID |-> calls[c].uid] :
                   s \in preLoadData})
  /\ [][\A c \in SoloCall :
          Lazy(c) /\ cacheInstances' # cacheInstances =>
            /\ calls[c].log # <<>>
            /\ preLoadData \subseteq cacheSeries
            /\ \A r \in calls[c].stamped : r.StudyInstanceUID = calls[c].uid]_vars

\* Both series fetches had settled when the listing returned, the server left
\* the StudyInstanceUID out of a summary, and the instances of the second
\* series were committed while the first series is still pending.
C30_Witness ==
  \E c \in SoloCall :
    /\ Lazy(c) /\ calls[c].early = StudySeries /\ srvSeries = MaxSeries
    /\ \E r \in listedSummaries : r.StudyInstanceUID = Undefined
    /\ calls[c].units[1] = "pending"
    /\ calls[c].units[MaxSeries] = "fulfilled" /\ CommittedOf(c, MaxSeries) # {}
    /\ calls[c].log = <<"addSeriesMetadata", "addInstances">>

\* C31: when the listing of a lazy retrieval fails, the call is rejected with
\* the transport's failure in that step, and the step commits no series
\* summary and no instance and leaves the loaded flag as it was; nothing of
\* that call is committed afterwards.
C31_ListingFailureSurfaced ==
  /\ [](\A c \in SoloCall :
         Lazy(c) /\ calls[c].fetchFailed =>
           /\ calls[c].pc = "done" /\ calls[c].result = "rejected"
           /\ calls[c].error = "transport"
           /\ calls[c].summaries = {} /\ calls[c].batches = {}
           /\ calls[c].log = <<>>
           /\ cacheSeries = {} /\ cacheInstances = {} /\ ~isLoaded)
  /\ [][\A c \in SoloCall :
          calls[c].pc = "listing" /\ calls'[c].fetchFailed =>
            /\ cacheSeries' = cacheSeries
            /\ cacheInstances' = cacheInstances
            /\ imageIdToUIDs' = imageIdToUIDs
            /\ isLoaded' = isLoaded]_vars

\* The listing of a lazy retrieval of a study that has instances failed.
C31_Witness ==
  \E c \in SoloCall :
    /\ Lazy(c) /\ calls[c].fetchFailed /\ calls[c].pc = "done"
    /\ srvSeries = MaxSeries /\ srvInst[1] > 0

\* C32: no step of an eager retrieval changes the loaded flag, and when an
\* eager retrieval returns, every instance of the study and the summary of
\* every series that delivered one are in the cache.
C32_EagerLeavesLoaded ==
  [][\A c \in CallIds :
       Eager(c)' /\ calls'[c] # calls[c] =>
         /\ isLoaded' = isLoaded
         /\ Returned(c)' =>
              /\ \A s \in StudySeries :
                   /\ SopsIn(cacheInstances', s) = 1..srvInst[s]
                   /\ srvInst[s] > 0 => s \in cacheSeries']_vars

\* An eager retrieval returned with instances committed and the study not
\* loaded, no lazy retrieval having run.
C32_Witness ==
  \E c \in CallIds :
    /\ Eager(c) /\ Returned(c) /\ ~isLoaded
    /\ cacheInstances # {} /\ cacheSeries # {}
    /\ \A d \in CallIds : ~Lazy(d)

\* C33: between steps, every image identifier in the metadata provider's
\* imageId-to-UIDs registry is the imageId of an instance record in the
\* cache.
C33_RegisteredOnlyIfCommitted ==
  \A id \in imageIdToUIDs : \E r \in cacheInstances : r.imageId = id

\* C34: getImageIdsForStudy fails and returns no list when the retrieval of a
\* series fails, and otherwise returns one list of image identifiers per
\* series of the study, in the order of the listing, each the identifiers of
\* that series' instances.
C34_OneListPerSeries ==
  studyIds.called /\ studyIds.listing =>
    IF \E s \in StudySeries : ~studyIds.ok[s]
    THEN studyIds.threw /\ studyIds.lists = <<>>
    ELSE /\ ~studyIds.threw
         /\ Len(studyIds.lists) = srvSeries
         /\ \A s \in StudySeries :
              studyIds.lists[s] = forEachImage(seriesImages(s), srvInst[s], NoMapper)

\* C35: initialize returns studyInstanceUIDs and seriesInstanceUIDs as
\* arrays; each is the query-string values of its key when there is at least
\* one, and the route param of its key, as an array, otherwise.
C35_QueryThenParams ==
  initCall.result.called =>
    /\ initCall.result.studyInstanceUIDs =
         IF Len(initCall.query.StudyInstanceUIDs) >= 1
         THEN initCall.query.StudyInstanceUIDs
         ELSE asArray(initCall.params.StudyInstanceUIDs)
    /\ initCall.result.seriesInstanceUIDs =
         IF Len(initCall.query.SeriesInstanceUIDs) >= 1
         THEN initCall.query.SeriesInstanceUIDs
         ELSE asArray(initCall.params.SeriesInstanceUIDs)

\* C36: right after toggleReferenceLines with toggledState false the
\* ReferenceLines tool of the active viewport's tool group is disabled;
\* right after one with toggledState true it is enabled and its source is
\* the active viewport.
C36_ToggleSetsMode ==
  /\ grid.last = "toggleOff" => toolGroups[activeToolGroup].mode = "Disabled"
  /\ grid.last = "toggleOn" =>
       /\ toolGroups[activeToolGroup].mode = "Enabled"
       /\ toolGroups[activeToolGroup].sourceViewportId =
            viewportIdOf(grid.activeViewportIndex)

\* C37: with n >= 1 viewports the active index stays in 0..n-1;
\* incrementActiveViewport moves it up by one and from n-1 to 0,
\* decrementActiveViewport moves it down by one and from 0 to n-1, and each
\* undoes the other.
C37_IncrementDecrement ==
  /\ [](/\ grid.activeViewportIndex \in 0..(grid.viewports - 1)
        /\ grid.last = "increment" =>
             grid.activeViewportIndex =
               IF grid.from = grid.viewports - 1 THEN 0 ELSE grid.from + 1
        /\ grid.last = "decrement" =>
             grid.activeViewportIndex =
               IF grid.from = 0 THEN grid.viewports - 1 ELSE grid.from - 1)
  /\ [][/\ grid'.last = "increment" /\ grid' # grid =>
            decrementIndex(grid'.activeViewportIndex, grid.viewports) =
              grid.activeViewportIndex
        /\ grid'.last = "decrement" /\ grid' # grid =>
            incrementIndex(grid'.activeViewportIndex, grid.viewports) =
              grid.activeViewportIndex
        /\ grid.last = "increment" /\ grid'.last = "decrement" =>
            grid'.activeViewportIndex = grid.from
        /\ grid.last = "decrement" /\ grid'.last = "increment" =>
            grid'.activeViewportIndex = grid.from]_vars

\* In a grid of MaxViewports viewports a decrement wrapped from index 0 to
\* the last index.
C37_Witness ==
  /\ grid.viewports = MaxViewports
  /\ grid.last = "decrement" /\ grid.from = 0
  /\ grid.activeViewportIndex = MaxViewports - 1

\* C38: in one rendering of the grid the onLayoutViewportDataContainersLoaded
\* command is run at most once, and when it is run every pane of the
\* rendering has reported its data loaded.
C38_RunOnceAllPanesLoaded ==
  /\ panes.runs <= 1
  /\ panes.runs > 0 =>
       \A p \in 1..panes.numViewportPanes : panes.ranAt[p] >= 1

====
